---- MODULE Spec2Model ----
(***************************************************************************)
(* Co-visitation graph engine of ml-service                               *)
(* (app/models/graph_sequencing.py, app/api/graph_sequencing.py,          *)
(* app/utils/data_fetcher.py).                                             *)
(*                                                                         *)
(* Distances are integers in metres (0.001 km).  Places of the catalog lie *)
(* on one meridian, where the haversine distance of two points is the      *)
(* length of the arc between them, so a coordinate is the arc length in    *)
(* metres from the equator; 0 is latitude 0.0, which the code treats like  *)
(* a missing coordinate.  A value "rounded to 2 decimals of a km" is a     *)
(* multiple of 10 metres.                                                  *)
(***************************************************************************)
EXTENDS Integers, Sequences, FiniteSets, TLC

VARIABLES
    history,     \* visited_places joined with destinations, by user_id, visited_at
    catalog,     \* destinations table read by DataFetcher
    graph,       \* model.graph
    stats,       \* model.stats
    trained_at,  \* model.trained_at (0 is None)
    now,         \* the clock datetime.utcnow() reads
    ret,         \* the last engine call: its operation, arguments and result
    store,       \* rows of the table co_visitation_graph
    runs,        \* the builds so far: prior graph, min_weight, returned graph
    trainer,     \* the background task _train_graph_task, step by step
    reader       \* the request being served, step by step

vars == <<history, catalog, graph, stats, trained_at, now, ret,
          store, runs, trainer, reader>>

(***************************************************************************)
(* Bounds and universes                                                    *)
(***************************************************************************)
MaxSeqLen == 4        \* visits of one multi-visit user
MaxMinWeight == 3     \* min_weight of a training request
MaxNow == 2           \* builds per behaviour
Users == {1, 2}       \* users with a sequence of their own
Dest == {1, 2, 3}     \* destination ids
VisitDest == {1, 2}   \* destinations of the visit history
PadChoices == {0, 7, 10}  \* numbers of additional single-visit users
MinRecords == 10      \* build_co_visitation_graph: len(visit_history) < 10

Max(a, b) == IF a >= b THEN a ELSE b
Min(a, b) == IF a <= b THEN a ELSE b

RECURSIVE SumSeq(_)
SumSeq(s) == IF s = <<>> THEN 0 ELSE Head(s) + SumSeq(Tail(s))

RECURSIVE FlattenSeq(_)
FlattenSeq(ss) == IF ss = <<>> THEN <<>> ELSE Head(ss) \o FlattenSeq(Tail(ss))

RECURSIVE SetToSortedSeq(_)
SetToSortedSeq(S) ==
    IF S = {} THEN <<>>
    ELSE LET m == CHOOSE x \in S : \A y \in S : x <= y
         IN <<m>> \o SetToSortedSeq(S \ {m})

SeqsUpTo(S, n) == UNION {[1..k -> S] : k \in 0..n}

(***************************************************************************)
(* The graph: networkx DiGraph, nodes and edges in insertion order          *)
(***************************************************************************)
NoneGraph == [none |-> TRUE, nodes |-> <<>>, edges |-> <<>>]
DiGraph == [none |-> FALSE, nodes |-> <<>>, edges |-> <<>>]

Range(s) == {s[i] : i \in 1..Len(s)}

NodeSet(G) == Range(G.nodes)
HasNode(G, n) == n \in NodeSet(G)
HasEdge(G, s, d) == \E i \in 1..Len(G.edges) : G.edges[i].src = s /\ G.edges[i].dst = d
EdgeData(G, s, d) ==
    G.edges[CHOOSE i \in 1..Len(G.edges) : G.edges[i].src = s /\ G.edges[i].dst = d]
NumberOfNodes(G) == Len(G.nodes)
NumberOfEdges(G) == Len(G.edges)

\* `self.graph is None` in place of `not self.graph`
NotGraphNoneOnly(G) == G.none

\* `not self.graph`: None, or a DiGraph whose len() (its node count) is 0
NotGraph(G) == G.none \/ NumberOfNodes(G) = 0

AddNode(nodes, n) == IF n \in Range(nodes) THEN nodes ELSE Append(nodes, n)

\* G.add_edge(src, dst, weight=w, frequency=f): new endpoints become nodes; an
\* edge that exists keeps its place and takes the new attributes
AddEdge(G, s, d, w, f) ==
    LET e == [src |-> s, dst |-> d, weight |-> w, frequency |-> f]
    IN [none |-> FALSE,
        nodes |-> AddNode(AddNode(G.nodes, s), d),
        edges |-> IF HasEdge(G, s, d)
                  THEN [i \in 1..Len(G.edges) |->
                          IF G.edges[i].src = s /\ G.edges[i].dst = d
                          THEN e ELSE G.edges[i]]
                  ELSE Append(G.edges, e)]

\* list(G.successors(n)): targets of n's edges in the order they were added
Successors(G, n) ==
    LET out == SelectSeq(G.edges, LAMBDA e : e.src = n)
    IN [i \in 1..Len(out) |-> out[i].dst]

OutDegree(G, n) == Len(Successors(G, n))

(***************************************************************************)
(* SequenceExtractor and GraphBuilder: build_co_visitation_graph            *)
(***************************************************************************)
\* visit_history.groupby('user_id'): the users present, ascending
GroupByUser(h) == SetToSortedSeq({h[i].user_id : i \in 1..Len(h)})

UserVisits(h, u) == SelectSeq(h, LAMBDA r : r.user_id = u)

\* user_visits.sort_values('visited_at')
RECURSIVE InsertByVisitedAt(_, _)
InsertByVisitedAt(sorted, r) ==
    IF sorted = <<>> THEN <<r>>
    ELSE IF r.visited_at < Head(sorted).visited_at
         THEN <<r>> \o sorted
         ELSE <<Head(sorted)>> \o InsertByVisitedAt(Tail(sorted), r)

RECURSIVE SortValuesVisitedAt(_)
SortValuesVisitedAt(rows) ==
    IF rows = <<>> THEN <<>>
    ELSE InsertByVisitedAt(SortValuesVisitedAt(SubSeq(rows, 1, Len(rows) - 1)),
                           rows[Len(rows)])

\* sorted_visits['destination_id'].tolist()
Destinations(h, u) ==
    LET sorted == SortValuesVisitedAt(UserVisits(h, u))
    IN [i \in 1..Len(sorted) |-> sorted[i].destination_id]

\* the (src, dst) pairs in the order the two loops visit them
UserPairs(h, u) ==
    LET ds == Destinations(h, u)
    IN [i \in 1..Max(Len(ds) - 1, 0) |-> <<ds[i], ds[i + 1]>>]

\* the pairs of adjacent rows of the whole history, users not separated
AllPairsAcrossUsers(h) ==
    [i \in 1..Max(Len(h) - 1, 0) |-> <<h[i].destination_id, h[i + 1].destination_id>>]

AllPairs(h) ==
    LET us == GroupByUser(h)
    IN FlattenSeq([k \in 1..Len(us) |-> UserPairs(h, us[k])])

\* edge_weights[(src, dst)] += 1 on a defaultdict(int): keys in first-seen order
RECURSIVE CountPairs(_, _)
CountPairs(pairs, ew) ==
    IF pairs = <<>> THEN ew
    ELSE LET p == Head(pairs)
             hit == {i \in 1..Len(ew) : ew[i].key = p}
         IN CountPairs(Tail(pairs),
                IF hit = {}
                THEN Append(ew, [key |-> p, count |-> 1])
                ELSE [i \in 1..Len(ew) |->
                        IF i \in hit THEN [ew[i] EXCEPT !.count = @ + 1] ELSE ew[i]])

EdgeWeights(h) == CountPairs(AllPairs(h), <<>>)

RetainEdgeStrict(weight, min_weight) == weight > min_weight

\* if weight >= min_weight
RetainEdge(weight, min_weight) == weight >= min_weight

RECURSIVE AddRetained(_, _, _)
AddRetained(G, ew, min_weight) ==
    IF ew = <<>> THEN G
    ELSE LET x == Head(ew)
         IN AddRetained(
                IF RetainEdge(x.count, min_weight)
                THEN AddEdge(G, x.key[1], x.key[2], x.count, x.count)
                ELSE G,
                Tail(ew), min_weight)

\* edge_weights seeded with the weights of the graph the model holds
BuiltGraphOnHeldWeights(h, min_weight) ==
    AddRetained(DiGraph,
                CountPairs(AllPairs(h),
                           [i \in 1..Len(graph.edges) |->
                               [key |-> <<graph.edges[i].src, graph.edges[i].dst>>,
                                count |-> graph.edges[i].weight]]),
                min_weight)

BuiltGraph(h, min_weight) == AddRetained(DiGraph, EdgeWeights(h), min_weight)

\* sum(dict(G.out_degree()).values()) / max(G.number_of_nodes(), 1), as a fraction
AvgOutDegree(G) ==
    [num |-> SumSeq([i \in 1..Len(G.nodes) |-> OutDegree(G, G.nodes[i])]),
     den |-> Max(NumberOfNodes(G), 1)]

\* sequence_count taken from the edges that survive the filter
BuildStatsOfRetained(G, h) ==
    [nodes |-> NumberOfNodes(G),
     edges |-> NumberOfEdges(G),
     sequences |-> SumSeq([i \in 1..Len(G.edges) |-> G.edges[i].weight]),
     avg_out_degree |-> AvgOutDegree(G)]

BuildStats(G, h) ==
    [nodes |-> NumberOfNodes(G),
     edges |-> NumberOfEdges(G),
     sequences |-> Len(AllPairs(h)),
     avg_out_degree |-> AvgOutDegree(G)]

InsufficientHistory(h) == Len(h) < MinRecords

DefaultDays == 180    \* fetch_visit_history(days: int = 180)
Today == 33           \* NOW() of the database, in days on the scale of visited_at
HistoricalDays == {30, 180, 365}   \* historical_days of a training request

\* DataFetcher.fetch_visit_history(days) on the rows of visited_places:
\* WHERE vp.visited_at >= NOW() - INTERVAL 'days days', order kept
FetchVisitHistory(table, days) ==
    SelectSeq(table, LAMBDA r : r.visited_at >= Today - days)

NoCall == [op |-> "none"]
NoRows == {}                  \* the table co_visitation_graph without rows
NoTask == [pc |-> "idle"]     \* no training task is running
NoRequest == [pc |-> "idle"]  \* no request is being served

\* model.build_co_visitation_graph(min_weight=min_weight): the history is
\* fetched with fetch_visit_history(), that is with the default days
BuildCoVisitationGraph(min_weight) ==
    /\ now < MaxNow
    /\ now' = now + 1
    /\ IF InsufficientHistory(FetchVisitHistory(history, DefaultDays))
       THEN /\ ret' = [op |-> "build", min_weight |-> min_weight,
                       published |-> FALSE, out |-> DiGraph]
            /\ UNCHANGED <<graph, stats, trained_at>>
       ELSE LET visit_history == FetchVisitHistory(history, DefaultDays)
                G == BuiltGraph(visit_history, min_weight)
            IN /\ stats' = BuildStats(G, visit_history)
               /\ graph' = G
               /\ trained_at' = now'
               /\ ret' = [op |-> "build", min_weight |-> min_weight,
                          published |-> TRUE, out |-> G]
    /\ UNCHANGED <<history, catalog, store, trainer, reader>>

Build == \E mw \in 1..MaxMinWeight : BuildCoVisitationGraph(mw) /\ UNCHANGED runs

(***************************************************************************)
(* Visit histories as fetch_visit_history returns them                     *)
(* (ORDER BY user_id, visited_at): each user of Users has a sequence of    *)
(* visits at times 1, 2, ...; `pad` further users have one visit each.     *)
(***************************************************************************)
UserRows(u, ds) ==
    [i \in 1..Len(ds) |-> [user_id |-> u, destination_id |-> ds[i], visited_at |-> i]]

HistoryOf(seqs, pad) ==
    LET us == SetToSortedSeq(Users)
        last == us[Len(us)]
    IN FlattenSeq([k \in 1..Len(us) |-> UserRows(us[k], seqs[us[k]])])
       \o [j \in 1..pad |-> [user_id |-> last + j, destination_id |-> 1, visited_at |-> 1]]

Histories ==
    {HistoryOf(seqs, pad) : seqs \in [Users -> SeqsUpTo(VisitDest, MaxSeqLen)], pad \in PadChoices}

NoCatalog == [d \in Dest |-> [found |-> FALSE]]

\* GraphSequencingModel.__init__ and the stores it will read
InitBuild ==
    /\ history \in Histories
    /\ catalog = NoCatalog
    /\ graph = NoneGraph
    /\ stats = <<>>
    /\ trained_at = 0
    /\ now = 0
    /\ ret = NoCall
    /\ store = NoRows
    /\ runs = <<>>
    /\ trainer = NoTask
    /\ reader = NoRequest

SpecBuild == InitBuild /\ [][Build]_vars

(***************************************************************************)
(* Destination catalog and GeoUtility                                      *)
(***************************************************************************)
Inf == 1000000000     \* float('inf'); every value >= Inf is infinite
Meridian == 1         \* the longitude all located places share (non-zero)

IsInf(x) == x >= Inf
Abs(x) == IF x < 0 THEN -x ELSE x

\* a destinations row; lat/lng 0 stands for NULL and for 0.0, both falsy
Located(p, c) == [status |-> "ok", lat |-> p, lng |-> Meridian, category |-> c]
NullCoords(c) == [status |-> "ok", lat |-> 0, lng |-> 0, category |-> c]
NotFound == [status |-> "notfound", lat |-> 0, lng |-> 0, category |-> <<>>]
LookupError == [status |-> "error", lat |-> 0, lng |-> 0, category |-> <<>>]

NoLocation == [found |-> FALSE, lat |-> 0, lng |-> 0]

\* DataFetcher.get_destination_location: None unless the row exists and both
\* coordinates are truthy; an exception of the query is caught and gives None
GetDestinationLocation(cat, id) ==
    LET row == cat[id]
    IN IF row.status = "ok" /\ row.lat # 0 /\ row.lng # 0
       THEN [found |-> TRUE, lat |-> row.lat, lng |-> row.lng]
       ELSE NoLocation

\* DataFetcher.get_destination_details: None unless the row exists
GetDestinationDetails(cat, id) ==
    LET row == cat[id]
    IN IF row.status = "ok"
       THEN [found |-> TRUE, latitude |-> row.lat, longitude |-> row.lng,
             category |-> row.category]
       ELSE [found |-> FALSE, latitude |-> 0, longitude |-> 0, category |-> <<>>]

\* _calculate_distance: inf when a coordinate is falsy, else the haversine
\* distance, which on one meridian is the arc between the two latitudes
CalculateDistance(lat1, lng1, lat2, lng2) ==
    IF lat1 = 0 \/ lng1 = 0 \/ lat2 = 0 \/ lng2 = 0
    THEN Inf
    ELSE Abs(lat2 - lat1)

\* round(x, 2) of a value in km: to the nearest 10 metres (an exact half goes
\* to the even hundredth); round(inf, 2) is inf
Round2(m) ==
    IF IsInf(m) THEN Inf
    ELSE LET r == m % 10
             down == m - r
         IN IF r < 5 THEN down
            ELSE IF r > 5 THEN down + 10
            ELSE IF (down \div 10) % 2 = 0 THEN down ELSE down + 10

(***************************************************************************)
(* TraversalEngine: suggest_next_places                                    *)
(***************************************************************************)
Take(s, n) == SubSeq(s, 1, Min(Len(s), Max(n, 0)))

RECURSIVE MaxOfSeq(_, _)
MaxOfSeq(s, default) ==
    IF s = <<>> THEN default
    ELSE LET m == MaxOfSeq(Tail(s), Head(s))
         IN IF Head(s) >= m THEN Head(s) ELSE m

\* max([self.graph[current][s].get('weight', 1) for s in successors], default=1)
MaxWeight(G, current) ==
    LET succ == Successors(G, current)
    IN MaxOfSeq([i \in 1..Len(succ) |-> EdgeData(G, current, succ[i]).weight], 1)

NoDistance == -1      \* the suggestion has no 'distance_km' key

\* a score weight / max(max_weight, 1) as the fraction num/den
ScoreLess(a, b) == a.num * b.den < b.num * a.den
ScoreEq(a, b) == a.num * b.den = b.num * a.den
IsOne(a) == a.num = a.den

IsExcludedNever(exclude, d) == FALSE

\* if exclude_ids and dest_id in exclude_ids: continue
IsExcluded(exclude, d) == d \in exclude

\* the suggestion scored with `score` (weight / max(avg_out_degree, 1))
\* in place of `normalized_score`
MakeSuggestionByAvgOutDegree(G, current, d) ==
    LET data == EdgeData(G, current, d)
        avg == AvgOutDegree(G)
    IN [destination_id |-> d,
        score |-> IF avg.num >= avg.den
                  THEN [num |-> data.weight * avg.den, den |-> avg.num]
                  ELSE [num |-> data.weight, den |-> 1],
        weight |-> data.weight,
        frequency |-> data.frequency,
        distance_km |-> NoDistance]

MakeSuggestion(G, current, d) ==
    LET data == EdgeData(G, current, d)
    IN [destination_id |-> d,
        score |-> [num |-> data.weight, den |-> Max(MaxWeight(G, current), 1)],
        weight |-> data.weight,
        frequency |-> data.frequency,
        distance_km |-> NoDistance]

\* the loop over successors
Candidates(G, current, exclude) ==
    LET succ == Successors(G, current)
        kept == SelectSeq(succ, LAMBDA d : ~IsExcluded(exclude, d))
    IN [i \in 1..Len(kept) |-> MakeSuggestion(G, current, kept[i])]

\* suggestions.sort(key=lambda x: x['score'], reverse=True): stable, equal
\* scores keep the order they had in the list
RECURSIVE InsertByScore(_, _)
InsertByScore(sorted, x) ==
    IF sorted = <<>> THEN <<x>>
    ELSE IF ScoreLess(Head(sorted).score, x.score)
         THEN <<x>> \o sorted
         ELSE <<Head(sorted)>> \o InsertByScore(Tail(sorted), x)

RECURSIVE SortByScore(_)
SortByScore(xs) ==
    IF xs = <<>> THEN <<>>
    ELSE InsertByScore(SortByScore(SubSeq(xs, 1, Len(xs) - 1)), xs[Len(xs)])

WithinDistanceAlways(distance, max_distance_km) == TRUE

\* if distance <= max_distance_km
WithinDistance(distance, max_distance_km) == distance <= max_distance_km

\* suggestions[:limit * 2]
Window(suggestions, limit) == Take(suggestions, limit * 2)

\* the body of `if current_location:`
RECURSIVE DistanceFiltered(_, _, _, _)
DistanceFiltered(cat, here, cands, max_distance_km) ==
    IF cands = <<>> THEN <<>>
    ELSE LET sug == Head(cands)
             rest == DistanceFiltered(cat, here, Tail(cands), max_distance_km)
             loc == GetDestinationLocation(cat, sug.destination_id)
         IN IF ~loc.found THEN rest
            ELSE LET distance == CalculateDistance(here.lat, here.lng, loc.lat, loc.lng)
                 IN IF WithinDistance(distance, max_distance_km)
                    THEN <<[sug EXCEPT !.distance_km = Round2(distance)]>> \o rest
                    ELSE rest

SkipFilterReturnsNothing(suggestions) == <<>>

\* current_location is None: the list is left as it was
SkipFilter(suggestions) == suggestions

\* return suggestions[:limit]
Truncate(suggestions, limit) == Take(suggestions, limit)

\* from `# Sort by score` to the return: sort, distance filter, [:limit]
SortedAndFiltered(cat, current, candidates, limit, consider_distance, max_distance_km) ==
    LET suggestions == SortByScore(candidates)
        here == GetDestinationLocation(cat, current)
        after ==
           IF consider_distance /\ max_distance_km > 0
           THEN IF here.found
                THEN Take(DistanceFiltered(cat, here, Window(suggestions, limit),
                                           max_distance_km), limit)
                ELSE SkipFilter(suggestions)
           ELSE suggestions
    IN Truncate(after, limit)

SuggestNextPlaces(G, cat, current, limit, exclude, consider_distance, max_distance_km) ==
    IF NotGraph(G) \/ ~HasNode(G, current) THEN <<>>
    ELSE IF Successors(G, current) = <<>> THEN <<>>
    ELSE SortedAndFiltered(cat, current, Candidates(G, current, exclude), limit,
                           consider_distance, max_distance_km)

MaxLimit == 2         \* limit of a suggest-next request
MaxExclude == 1       \* ids in exclude_ids
DefaultMaxDistance == 10000   \* max_distance_km: float = 10.0
DistanceChoices == {0, 1007, DefaultMaxDistance}   \* max_distance_km, metres

ExcludeSets == {x \in SUBSET Dest : Cardinality(x) <= MaxExclude}

\* one engine query per behaviour: queries change nothing they read
Idle == ret.op = "none"

SuggestNext(current, limit, exclude, consider_distance, max_distance_km) ==
    /\ Idle
    /\ ret' = [op |-> "suggest_next", current |-> current, limit |-> limit,
               exclude |-> exclude, consider_distance |-> consider_distance,
               max_distance_km |-> max_distance_km,
               out |-> SuggestNextPlaces(graph, catalog, current, limit, exclude,
                                         consider_distance, max_distance_km)]
    /\ UNCHANGED <<history, catalog, graph, stats, trained_at, now,
                   store, runs, trainer, reader>>

CallSuggestNext ==
    \E current \in Dest, limit \in 1..MaxLimit, exclude \in ExcludeSets,
       consider_distance \in BOOLEAN, max_distance_km \in DistanceChoices :
        SuggestNext(current, limit, exclude, consider_distance, max_distance_km)

(***************************************************************************)
(* DayComposer: suggest_complete_day                                       *)
(***************************************************************************)
\* str.lower() on the letters the model uses; a string is a sequence of them
LowerChar(c) == IF c = "A" THEN "a" ELSE IF c = "B" THEN "b" ELSE c
Lower(str) == [i \in 1..Len(str) |-> LowerChar(str[i])]

\* needle in hay (substring; the empty string is in every string)
Contains(hay, needle) ==
    \E k \in 0..(Len(hay) - Len(needle)) :
        \A i \in 1..Len(needle) : hay[k + i] = needle[i]

\* the category test without the two lower() calls
DestinationMatchesCategoryExactCase(cat, id, categories) ==
    LET details == GetDestinationDetails(cat, id)
    IN IF ~details.found THEN FALSE
       ELSE \E k \in 1..Len(categories) : Contains(details.category, categories[k])

\* _destination_matches_category; a NULL category counts as ''
DestinationMatchesCategory(cat, id, categories) ==
    LET details == GetDestinationDetails(cat, id)
    IN IF ~details.found THEN FALSE
       ELSE \E k \in 1..Len(categories) :
                Contains(Lower(details.category), Lower(categories[k]))

DayLimit == 10        \* limit=10 of the call in suggest_complete_day

\* the candidates when the places already chosen are not excluded
DayCandidatesNoExclude(G, cat, current, visited) ==
    SuggestNextPlaces(G, cat, current, DayLimit, {}, TRUE, DefaultMaxDistance)

\* suggest_next_places(current, limit=10, exclude_ids=list(visited)), the
\* distance arguments at their defaults (True, 10.0)
DayCandidates(G, cat, current, visited) ==
    SuggestNextPlaces(G, cat, current, DayLimit, visited, TRUE, DefaultMaxDistance)

\* the candidates of a category filter with no fallback to the full list
PreferredMatchingOnly(cat, next_places, categories) ==
    IF categories = <<>> THEN next_places
    ELSE SelectSeq(next_places,
             LAMBDA p : DestinationMatchesCategory(cat, p.destination_id, categories))

\* if categories: keep the matching candidates unless none matches
Preferred(cat, next_places, categories) ==
    IF categories = <<>> THEN next_places
    ELSE LET filtered == SelectSeq(next_places,
                 LAMBDA p : DestinationMatchesCategory(cat, p.destination_id, categories))
         IN IF filtered # <<>> THEN filtered ELSE next_places

\* the traversal loop, `steps` iterations left
RECURSIVE Traverse(_, _, _, _, _)
Traverse(G, cat, sequence, categories, steps) ==
    IF steps <= 0 THEN sequence
    ELSE LET current == sequence[Len(sequence)]
             next_places == DayCandidates(G, cat, current, Range(sequence))
         IN IF next_places = <<>> THEN sequence
            ELSE LET chosen == Preferred(cat, next_places, categories)
                 IN IF chosen = <<>> THEN sequence
                    ELSE Traverse(G, cat, Append(sequence, chosen[1].destination_id),
                                  categories, steps - 1)

\* the enrichment loop: ids without details are left out
Enriched(cat, sequence) ==
    LET known == SelectSeq(sequence, LAMBDA d : GetDestinationDetails(cat, d).found)
    IN [i \in 1..Len(known) |->
          [destination_id |-> known[i],
           category |-> GetDestinationDetails(cat, known[i]).category]]

\* the ids suggest_complete_day chooses (its local `sequence`)
DaySequence(G, cat, starting_place_id, categories, max_places) ==
    IF NotGraph(G) \/ ~HasNode(G, starting_place_id) THEN <<>>
    ELSE Traverse(G, cat, <<starting_place_id>>, categories, max_places - 1)

SuggestCompleteDay(G, cat, starting_place_id, categories, max_places) ==
    Enriched(cat, DaySequence(G, cat, starting_place_id, categories, max_places))

MaxPlaces == 3        \* max_places of a complete-day request
CategoryLists == {<<>>, << <<"b">> >>, << <<"A">>, <<"x">> >>}

CompleteDay(starting_place_id, categories, max_places) ==
    /\ Idle
    /\ ret' = [op |-> "complete_day", start |-> starting_place_id,
               categories |-> categories, max_places |-> max_places,
               sequence |-> DaySequence(graph, catalog, starting_place_id,
                                        categories, max_places),
               out |-> SuggestCompleteDay(graph, catalog, starting_place_id,
                                          categories, max_places)]
    /\ UNCHANGED <<history, catalog, graph, stats, trained_at, now,
                   store, runs, trainer, reader>>

CallCompleteDay ==
    \E start \in Dest, categories \in CategoryLists, max_places \in 2..MaxPlaces :
        CompleteDay(start, categories, max_places)

(***************************************************************************)
(* ItineraryOptimizer: optimize_itinerary                                  *)
(***************************************************************************)
PlacesPerDay == 4     \* while len(day_places) < 4
FullScoreDistance == 50000   \* distance / 50.0, in metres
GraphScoreUnit == 7500       \* 0.6 * (weight / 10.0) on the scale of Score

\* the destinations list without the `if details:` test: every requested id
ResolvedKeepsUnknown(cat, destination_ids) ==
    [i \in 1..Len(destination_ids) |->
        LET details == GetDestinationDetails(cat, destination_ids[i])
        IN [id |-> destination_ids[i], category |-> details.category,
            lat |-> details.latitude, lng |-> details.longitude]]

\* the destinations list: the ids the catalog resolves, in request order
Resolved(cat, destination_ids) ==
    LET known == SelectSeq(destination_ids, LAMBDA d : GetDestinationDetails(cat, d).found)
    IN [i \in 1..Len(known) |->
          LET details == GetDestinationDetails(cat, known[i])
          IN [id |-> known[i], category |-> details.category,
              lat |-> details.latitude, lng |-> details.longitude]]

PlaceDistance(a, b) == CalculateDistance(a.lat, a.lng, b.lat, b.lng)

\* graph_score * 0.6 + distance_score * 0.4, multiplied by 125000:
\* 7500 * weight + max(0, 50000 - distance), distance in metres
Score(G, current, candidate) ==
    LET graph_score == IF HasEdge(G, current.id, candidate.id)
                       THEN GraphScoreUnit * EdgeData(G, current.id, candidate.id).weight
                       ELSE 0
        distance == PlaceDistance(current, candidate)
        distance_score == IF IsInf(distance) THEN 0
                          ELSE Max(0, FullScoreDistance - distance)
    IN graph_score + distance_score

\* the scan with `score >= best_score`: the last candidate of the highest
\* score wins
RECURSIVE BestNextLastWins(_, _, _, _, _, _)
BestNextLastWins(G, current, remaining, k, best, best_score) ==
    IF k > Len(remaining) THEN best
    ELSE LET score == Score(G, current, remaining[k])
         IN IF score >= best_score
            THEN BestNextLastWins(G, current, remaining, k + 1, k, score)
            ELSE BestNextLastWins(G, current, remaining, k + 1, best, best_score)

\* the scan over remaining: the first candidate of the highest score wins
\* (score > best_score, best_score starting at -1)
RECURSIVE BestNext(_, _, _, _, _, _)
BestNext(G, current, remaining, k, best, best_score) ==
    IF k > Len(remaining) THEN best
    ELSE LET score == Score(G, current, remaining[k])
         IN IF score > best_score
            THEN BestNext(G, current, remaining, k + 1, k, score)
            ELSE BestNext(G, current, remaining, k + 1, best, best_score)

\* a remove that leaves the list as it is
RemoveFirstKeepsAll(xs, x) == xs

\* remaining.remove(x): the first element equal to x goes
RemoveFirst(xs, x) ==
    LET k == CHOOSE i \in 1..Len(xs) : xs[i] = x /\ \A j \in 1..(i - 1) : xs[j] # x
    IN SubSeq(xs, 1, k - 1) \o SubSeq(xs, k + 1, Len(xs))

\* the while loop of one day with best_score starting at 0: a candidate of
\* score 0 is never selected and the day closes
RECURSIVE GrowDayBestStartsAtZero(_, _, _)
GrowDayBestStartsAtZero(G, day_places, remaining) ==
    IF ~(Len(day_places) < PlacesPerDay /\ remaining # <<>>)
    THEN [places |-> day_places, remaining |-> remaining]
    ELSE LET current == day_places[Len(day_places)]
             k == BestNext(G, current, remaining, 1, 0, 0)
         IN IF k = 0
            THEN [places |-> day_places, remaining |-> remaining]
            ELSE GrowDayBestStartsAtZero(G, Append(day_places, remaining[k]),
                                         RemoveFirst(remaining, remaining[k]))

\* the while loop of one day; returns the day's places and what remains
RECURSIVE GrowDay(_, _, _)
GrowDay(G, day_places, remaining) ==
    IF ~(Len(day_places) < PlacesPerDay /\ remaining # <<>>)
    THEN [places |-> day_places, remaining |-> remaining]
    ELSE LET current == day_places[Len(day_places)]
             k == BestNext(G, current, remaining, 1, 0, -1)
         IN IF k = 0
            THEN [places |-> day_places, remaining |-> remaining]
            ELSE GrowDay(G, Append(day_places, remaining[k]),
                         RemoveFirst(remaining, remaining[k]))

\* for day in range(max_days)
RECURSIVE PlanDays(_, _, _, _, _)
PlanDays(G, days, remaining, day, max_days) ==
    IF day >= max_days \/ remaining = <<>> THEN days
    ELSE LET grown == GrowDay(G, <<Head(remaining)>>, Tail(remaining))
         IN PlanDays(G, Append(days, [day |-> day + 1, places |-> grown.places]),
                     grown.remaining, day + 1, max_days)

AddDistance(a, b) == IF IsInf(a) \/ IsInf(b) THEN Inf ELSE a + b

RECURSIVE LegsOf(_)
LegsOf(places) ==
    IF Len(places) < 2 THEN 0
    ELSE AddDistance(PlaceDistance(places[1], places[2]), LegsOf(Tail(places)))

\* the legs of the whole tour, the legs from one day to the next included
TotalDistanceWithCrossDayLegs(days) ==
    LegsOf(FlattenSeq([i \in 1..Len(days) |-> days[i].places]))

\* the loop under `# Calculate total distance`
RECURSIVE TotalDistance(_)
TotalDistance(days) ==
    IF days = <<>> THEN 0
    ELSE AddDistance(LegsOf(Head(days).places), TotalDistance(Tail(days)))

NoMethod == "absent"  \* the result has no 'optimization_method' key
NoDayNumber == 0      \* the day has no 'day' key

OptimizeItinerary(G, cat, destination_ids, max_days) ==
    IF NotGraph(G) \/ destination_ids = <<>>
    THEN [days |-> <<>>, total_distance_km |-> 0, optimization_method |-> NoMethod]
    ELSE LET destinations == Resolved(cat, destination_ids)
         IN IF Len(destinations) < 2
            THEN [days |-> <<[day |-> NoDayNumber, places |-> destinations]>>,
                  total_distance_km |-> 0, optimization_method |-> NoMethod]
            ELSE LET days == PlanDays(G, <<>>, destinations, 0, max_days)
                 IN [days |-> days,
                     total_distance_km |-> Round2(TotalDistance(days)),
                     optimization_method |-> "graph_and_distance"]

MaxIds == 5           \* ids of an optimize-itinerary request
MaxDays == 2          \* max_days of an optimize-itinerary request

Optimize(destination_ids, max_days) ==
    /\ Idle
    /\ ret' = [op |-> "optimize", destination_ids |-> destination_ids,
               max_days |-> max_days,
               out |-> OptimizeItinerary(graph, catalog, destination_ids, max_days)]
    /\ UNCHANGED <<history, catalog, graph, stats, trained_at, now,
                   store, runs, trainer, reader>>

CallOptimize ==
    \E destination_ids \in SeqsUpTo(Dest, MaxIds), max_days \in 1..MaxDays :
        Optimize(destination_ids, max_days)

(***************************************************************************)
(* Graphs a build can publish: edges in any insertion order, weight =       *)
(* frequency >= 1.  With min_weight 1 the transition count is the sum of    *)
(* the weights.                                                             *)
(***************************************************************************)
MaxEdges == 3         \* edges of a graph
Weights == {1, 2}     \* edge weights

RECURSIVE GraphOfEdges(_, _)
GraphOfEdges(G, es) ==
    IF es = <<>> THEN G
    ELSE LET key == Head(es)[1]
             w == Head(es)[2]
         IN GraphOfEdges(AddEdge(G, key[1], key[2], w, w), Tail(es))

GraphsOver(keys) ==
    {GraphOfEdges(DiGraph, es) :
        es \in {x \in SeqsUpTo(keys \X Weights, MaxEdges) :
                   \A i, j \in 1..Len(x) : x[i][1] = x[j][1] => i = j}}

PublishedStats(G) ==
    [nodes |-> NumberOfNodes(G),
     edges |-> NumberOfEdges(G),
     sequences |-> SumSeq([i \in 1..Len(G.edges) |-> G.edges[i].weight]),
     avg_out_degree |-> AvgOutDegree(G)]

\* the places around place 1 and its successors
NextCatalogs ==
    {[d \in Dest |-> IF d = 1 THEN c1 ELSE IF d = 2 THEN c2 ELSE c3] :
        c1 \in {Located(1000, <<>>), NullCoords(<<>>), NotFound, LookupError},
        c2 \in {Located(2006, <<>>), Located(13000, <<>>), NotFound},
        c3 \in {Located(2006, <<>>), Located(13000, <<>>), NullCoords(<<>>)}}

\* graphs whose edges leave place 1, after a build published them
InitNext ==
    /\ history = <<>>
    /\ catalog \in NextCatalogs
    /\ graph \in GraphsOver({1} \X Dest)
    /\ stats = PublishedStats(graph)
    /\ trained_at = 1
    /\ now = 1
    /\ ret = NoCall
    /\ store = NoRows
    /\ runs = <<>>
    /\ trainer = NoTask
    /\ reader = NoRequest

SpecNext == InitNext /\ [][CallSuggestNext]_vars

\* the places of a day: 1 and 2 are 1.006 km apart, 3 is near or far
DayCatalogs ==
    {[d \in Dest |-> IF d = 1 THEN c1 ELSE IF d = 2 THEN c2 ELSE c3] :
        c1 \in {Located(1000, <<"a", "b">>), NotFound},
        c2 \in {Located(2006, <<"B">>), NotFound},
        c3 \in {Located(3000, <<>>), Located(13000, <<"A", "b">>), NotFound}}


InitDay ==
    /\ history = <<>>
    /\ catalog \in DayCatalogs
    /\ graph \in GraphsOver({<<1, 1>>, <<1, 2>>, <<1, 3>>, <<2, 3>>, <<3, 1>>})
    /\ stats = PublishedStats(graph)
    /\ trained_at = 1
    /\ now = 1
    /\ ret = NoCall
    /\ store = NoRows
    /\ runs = <<>>
    /\ trainer = NoTask
    /\ reader = NoRequest

SpecDay == InitDay /\ [][CallCompleteDay]_vars

ItinCatalogs ==
    {[d \in Dest |-> IF d = 1 THEN c1 ELSE IF d = 2 THEN c2 ELSE c3] :
        c1 \in {Located(1000, <<>>), NullCoords(<<>>)},
        c2 \in {Located(2006, <<>>), NotFound},
        c3 \in {Located(13000, <<>>), Located(61000, <<>>)}}


InitItin ==
    /\ history = <<>>
    /\ catalog \in ItinCatalogs
    /\ graph \in GraphsOver({<<1, 3>>, <<2, 1>>})
    /\ stats = PublishedStats(graph)
    /\ trained_at = 1
    /\ now = 1
    /\ ret = NoCall
    /\ store = NoRows
    /\ runs = <<>>
    /\ trainer = NoTask
    /\ reader = NoRequest

SpecItin == InitItin /\ [][CallOptimize]_vars

\* a fresh model (no graph), a model whose build kept no edge, and small graphs

QueryCatalogs ==
    {[d \in Dest |-> IF d = 1 THEN c1 ELSE IF d = 2 THEN c2 ELSE Located(13000, <<>>)] :
        c1 \in {Located(1000, <<"a", "b">>), NotFound},
        c2 \in {Located(2006, <<"B">>), NotFound}}

InitQuery ==
    /\ history = <<>>
    /\ catalog \in QueryCatalogs
    /\ \/ /\ graph = NoneGraph
          /\ stats = <<>>
          /\ trained_at = 0
          /\ now = 0
       \/ /\ graph \in GraphsOver({<<1, 2>>, <<2, 1>>})
          /\ stats = PublishedStats(graph)
          /\ trained_at = 1
          /\ now = 1
    /\ ret = NoCall
    /\ store = NoRows
    /\ runs = <<>>
    /\ trainer = NoTask
    /\ reader = NoRequest

NextQuery == CallSuggestNext \/ CallCompleteDay \/ CallOptimize

SpecQuery == InitQuery /\ [][NextQuery]_vars

(***************************************************************************)
(* GraphStore: save_to_database and load_from_database over the table      *)
(* co_visitation_graph, whose rows are unique in                           *)
(* (destination_a_id, destination_b_id)                                    *)
(***************************************************************************)
Row(a, b, w, f) ==
    [destination_a_id |-> a, destination_b_id |-> b, weight |-> w, frequency |-> f]

SameKey(r, q) ==
    r.destination_a_id = q.destination_a_id /\ r.destination_b_id = q.destination_b_id

\* the tuple of an edge with frequency 1 in place of the edge's frequency
EdgeRowDefaultFrequency(e) == Row(e.src, e.dst, e.weight, 1)

\* (src, dst, data.get('weight', 1), data.get('frequency', 1))
EdgeRow(e) == Row(e.src, e.dst, e.weight, e.frequency)

\* the list `edges`, in the order of self.graph.edges(data=True)
EdgeRows(G) == [i \in 1..Len(G.edges) |-> EdgeRow(G.edges[i])]

\* the save without the DELETE
DeleteNothing(table) == table

\* DELETE FROM co_visitation_graph
DeleteAll(table) == {}

\* INSERT ... ON CONFLICT (destination_a_id, destination_b_id) DO UPDATE SET
\* weight = EXCLUDED.weight, frequency = EXCLUDED.frequency
Upsert(table, row) == {r \in table : ~SameKey(r, row)} \cup {row}

\* cur.executemany(INSERT ..., edges)
RECURSIVE ExecuteMany(_, _)
ExecuteMany(table, rows) ==
    IF rows = <<>> THEN table
    ELSE ExecuteMany(Upsert(table, Head(rows)), Tail(rows))

\* the table after the transaction of save_to_database committed
SavedTable(table, G) == ExecuteMany(DeleteAll(table), EdgeRows(G))

\* a failed load that had already assigned the empty local graph
FailedLoadGraphEmpty(G) == DiGraph

\* self.graph after a load that raised: the assignment was not reached
FailedLoadGraph(G) == G

\* SELECT ... ORDER BY weight DESC; cur.fetchall(): the rows in any order
\* that is descending in weight
SelectOrders(table) ==
    {rows \in SeqsUpTo(table, Cardinality(table)) :
        /\ Len(rows) = Cardinality(table)
        /\ Range(rows) = table
        /\ \A i \in 1..(Len(rows) - 1) : rows[i].weight >= rows[i + 1].weight}

\* for src, dst, weight, frequency in rows: G.add_edge(...)
RECURSIVE LoadedGraph(_, _)
LoadedGraph(G, rows) ==
    IF rows = <<>> THEN G
    ELSE LET r == Head(rows)
         IN LoadedGraph(AddEdge(G, r.destination_a_id, r.destination_b_id,
                                r.weight, r.frequency),
                        Tail(rows))

\* self.stats of load_from_database
LoadStats(G) == [nodes |-> NumberOfNodes(G), edges |-> NumberOfEdges(G)]

\* model.save_to_database(): False without a graph or when the connection or
\* a statement raises (nothing is committed then), True after the commit
SaveToDatabase ==
    /\ \/ /\ ~NotGraph(graph)
          /\ store' = SavedTable(store, graph)
          /\ ret' = [op |-> "save", ok |-> TRUE, graph |-> graph, before |-> store]
       \/ /\ store' = store
          /\ ret' = [op |-> "save", ok |-> FALSE, graph |-> graph, before |-> store]
    /\ UNCHANGED <<history, catalog, graph, stats, trained_at, now,
                   runs, trainer, reader>>

\* the last call, when it was a save
LastSave == IF ret.op = "save" THEN ret ELSE NoCall

\* model.load_from_database(): True after graph and stats were replaced,
\* False when the connection or the query raises
LoadFromDatabase ==
    /\ \/ \E rows \in SelectOrders(store) :
             LET G == LoadedGraph(DiGraph, rows)
             IN /\ graph' = G
                /\ stats' = LoadStats(G)
                /\ ret' = [op |-> "load", ok |-> TRUE, rows |-> rows,
                           prior |-> LastSave]
       \/ /\ graph' = FailedLoadGraph(graph)
          /\ stats' = stats
          /\ ret' = [op |-> "load", ok |-> FALSE, rows |-> <<>>,
                     prior |-> LastSave]
    /\ UNCHANGED <<history, catalog, store, trained_at, now,
                   runs, trainer, reader>>

\* tables left by earlier saves and graphs a build published
\* tables over two keys, with frequencies that may differ from the weights
Tables ==
    LET rows == {Row(k[1], k[2], w, f) : k \in {<<1, 2>>, <<2, 1>>},
                                         w \in Weights, f \in {1, 2}}
    IN {t \in SUBSET rows : \A r, q \in t : SameKey(r, q) => r = q}

InitStore ==
    /\ history = <<>>
    /\ catalog = NoCatalog
    /\ store \in Tables
    /\ \/ /\ graph = NoneGraph
          /\ stats = <<>>
          /\ trained_at = 0
          /\ now = 0
       \/ /\ graph \in GraphsOver({<<1, 2>>, <<1, 3>>})
          /\ stats = PublishedStats(graph)
          /\ trained_at = 1
          /\ now = 1
    /\ ret = NoCall
    /\ runs = <<>>
    /\ trainer = NoTask
    /\ reader = NoRequest

NextStore == SaveToDatabase \/ LoadFromDatabase

SpecStore == InitStore /\ [][NextStore]_vars

(***************************************************************************)
(* Training in the background and a request served meanwhile.              *)
(* _train_graph_task is a plain function, which BackgroundTasks runs on a  *)
(* worker thread; the endpoints are coroutines that call the model on the  *)
(* event-loop thread.  The two threads interleave between any two accesses *)
(* of model.graph, so each access is a step of its own.                    *)
(***************************************************************************)
TaskAt(pc, min_weight, G, pending, outcome) ==
    [pc |-> pc, min_weight |-> min_weight, G |-> G, pending |-> pending,
     outcome |-> outcome]

\* _train_graph_task calls build_co_visitation_graph, which fetches the visit
\* history: the fetch raises (the task logs it), or the history is too short
\* (an empty graph is returned, the task returns), or the counting loop runs
TrainStart(min_weight) ==
    /\ trainer.pc = "idle"
    /\ now < MaxNow
    /\ now' = now + 1
    /\ \/ trainer' = TaskAt("done", min_weight, DiGraph, <<>>, "fetch_failed")
       \/ LET visit_history == FetchVisitHistory(history, DefaultDays)
          IN trainer' = IF InsufficientHistory(visit_history)
                        THEN TaskAt("done", min_weight, DiGraph, <<>>, "insufficient")
                        ELSE TaskAt("assemble", min_weight, DiGraph,
                                    EdgeWeights(visit_history), "building")
    /\ UNCHANGED <<history, catalog, graph, stats, trained_at, ret, store,
                   runs, reader>>

\* the local graph after one more item of edge_weights
AssembledWith(G, x, min_weight) ==
    IF RetainEdge(x.count, min_weight)
    THEN AddEdge(G, x.key[1], x.key[2], x.count, x.count)
    ELSE G

\* the loop adding edges to the graph the model serves instead of a local one
TrainAddEdgeInPlace ==
    /\ trainer.pc = "assemble"
    /\ trainer.pending # <<>>
    /\ trainer' = [trainer EXCEPT
                      !.G = AssembledWith(@, Head(trainer.pending), trainer.min_weight),
                      !.pending = Tail(@)]
    /\ graph' = trainer'.G
    /\ UNCHANGED <<history, catalog, stats, trained_at, now, ret, store,
                   runs, reader>>

\* one iteration of `for (src, dst), weight in edge_weights.items()`, on the
\* local G
TrainAddEdge ==
    /\ trainer.pc = "assemble"
    /\ trainer.pending # <<>>
    /\ trainer' = [trainer EXCEPT
                      !.G = AssembledWith(@, Head(trainer.pending), trainer.min_weight),
                      !.pending = Tail(@)]
    /\ UNCHANGED <<history, catalog, graph, stats, trained_at, now, ret, store,
                   runs, reader>>

\* self.stats = {...}
TrainSetStats ==
    /\ trainer.pc = "assemble"
    /\ trainer.pending = <<>>
    /\ stats' = BuildStats(trainer.G, FetchVisitHistory(history, DefaultDays))
    /\ trainer' = [trainer EXCEPT !.pc = "publish"]
    /\ UNCHANGED <<history, catalog, graph, trained_at, now, ret, store,
                   runs, reader>>

\* self.graph = G
TrainPublish ==
    /\ trainer.pc = "publish"
    /\ graph' = trainer.G
    /\ trainer' = [trainer EXCEPT !.pc = "stamp"]
    /\ UNCHANGED <<history, catalog, stats, trained_at, now, ret, store,
                   runs, reader>>

\* self.trained_at = datetime.utcnow(); return G; the task returns when the
\* returned graph has no node
TrainStamp ==
    /\ trainer.pc = "stamp"
    /\ trained_at' = now
    /\ trainer' = IF NumberOfNodes(trainer.G) = 0
                  THEN [trainer EXCEPT !.pc = "done", !.outcome = "empty"]
                  ELSE [trainer EXCEPT !.pc = "save"]
    /\ UNCHANGED <<history, catalog, graph, stats, now, ret, store,
                   runs, reader>>

\* success = model.save_to_database()
TrainSave ==
    /\ trainer.pc = "save"
    /\ \/ /\ ~NotGraph(graph)
          /\ store' = SavedTable(store, graph)
          /\ trainer' = [trainer EXCEPT !.pc = "done", !.outcome = "saved"]
       \/ /\ store' = store
          /\ trainer' = [trainer EXCEPT !.pc = "done", !.outcome = "save_failed"]
    /\ UNCHANGED <<history, catalog, graph, stats, trained_at, now, ret,
                   runs, reader>>

\* the task is over; a later /train request starts the next one
TrainReturn ==
    /\ trainer.pc = "done"
    /\ trainer' = NoTask
    /\ UNCHANGED <<history, catalog, graph, stats, trained_at, now, ret, store,
                   runs, reader>>

OK == 200
InternalServerError == 500
ServiceUnavailable == 503
NoStatus == 0         \* the request is not answered yet

\* every request goes to the load, whatever graph the model holds
RequestAlwaysLoads(endpoint, current, limit, exclude) ==
    /\ reader.pc = "idle"
    /\ reader' = [pc |-> "load", endpoint |-> endpoint, lazy |-> NotGraph(graph),
                  current |-> current, limit |-> limit, exclude |-> exclude,
                  G |-> DiGraph, rows |-> <<>>, fetched |-> <<>>,
                  successors |-> <<>>, k |-> 1, suggestions |-> <<>>,
                  reads |-> {}, status |-> NoStatus, out |-> <<>>]
    /\ UNCHANGED <<history, catalog, graph, stats, trained_at, now, ret, store,
                   runs, trainer>>

\* POST /suggest-next, /complete-day, /optimize-itinerary:
\* model = get_graph_model(); if not model.graph: model.load_from_database()
Request(endpoint, current, limit, exclude) ==
    /\ reader.pc = "idle"
    /\ reader' = [pc |-> IF NotGraph(graph) THEN "load" ELSE "check",
                  endpoint |-> endpoint, lazy |-> NotGraph(graph),
                  current |-> current, limit |-> limit, exclude |-> exclude,
                  G |-> DiGraph, rows |-> <<>>, fetched |-> <<>>,
                  successors |-> <<>>, k |-> 1, suggestions |-> <<>>,
                  reads |-> {}, status |-> NoStatus, out |-> <<>>]
    /\ UNCHANGED <<history, catalog, graph, stats, trained_at, now, ret, store,
                   runs, trainer>>

\* load_from_database: G = nx.DiGraph(); rows = cur.fetchall(), or the
\* connection or the query raises and the load returns False
LoadSelect ==
    /\ reader.pc = "load"
    /\ \/ \E rows \in SelectOrders(store) :
             reader' = [reader EXCEPT !.pc = "load_rows", !.rows = rows,
                                      !.fetched = rows, !.G = DiGraph]
       \/ reader' = [reader EXCEPT !.pc = "check"]
    /\ UNCHANGED <<history, catalog, graph, stats, trained_at, now, ret, store,
                   runs, trainer>>

\* one iteration of `for src, dst, weight, frequency in rows`
LoadAddRow ==
    /\ reader.pc = "load_rows"
    /\ reader.rows # <<>>
    /\ reader' = [reader EXCEPT !.G = LoadedGraph(@, <<Head(reader.rows)>>),
                                 !.rows = Tail(@)]
    /\ UNCHANGED <<history, catalog, graph, stats, trained_at, now, ret, store,
                   runs, trainer>>

\* self.graph = G
LoadPublish ==
    /\ reader.pc = "load_rows"
    /\ reader.rows = <<>>
    /\ graph' = reader.G
    /\ reader' = [reader EXCEPT !.pc = "load_stats"]
    /\ UNCHANGED <<history, catalog, stats, trained_at, now, ret, store,
                   runs, trainer>>

\* self.stats = {'nodes': ..., 'edges': ...}; return True
LoadSetStats ==
    /\ reader.pc = "load_stats"
    /\ stats' = LoadStats(reader.G)
    /\ reader' = [reader EXCEPT !.pc = "check"]
    /\ UNCHANGED <<history, catalog, graph, trained_at, now, ret, store,
                   runs, trainer>>

\* if not model.graph: raise HTTPException(status_code=503)
CheckLoaded ==
    /\ reader.pc = "check"
    /\ reader' = IF NotGraph(graph)
                 THEN [reader EXCEPT !.pc = "done", !.status = ServiceUnavailable]
                 ELSE IF reader.endpoint = "suggest_next"
                 THEN [reader EXCEPT !.pc = "guard"]
                 ELSE [reader EXCEPT !.pc = "engine"]
    /\ UNCHANGED <<history, catalog, graph, stats, trained_at, now, ret, store,
                   runs, trainer>>

\* model.suggest_complete_day(...) and model.optimize_itinerary(...), each
\* taken as one step on the graph the model holds
EngineCall ==
    /\ reader.pc = "engine"
    /\ reader' = [reader EXCEPT
                     !.pc = "done", !.status = OK, !.reads = @ \cup {graph},
                     !.out = IF reader.endpoint = "complete_day"
                             THEN SuggestCompleteDay(graph, catalog, reader.current,
                                                     <<>>, reader.limit)
                             ELSE OptimizeItinerary(graph, catalog, <<reader.current>>,
                                                    reader.limit)]
    /\ UNCHANGED <<history, catalog, graph, stats, trained_at, now, ret, store,
                   runs, trainer>>

\* suggest_next_places: if not self.graph or current_place_id not in
\* self.graph: return []
Guard ==
    /\ reader.pc = "guard"
    /\ reader' = IF NotGraph(graph) \/ ~HasNode(graph, reader.current)
                 THEN [reader EXCEPT !.pc = "done", !.status = OK, !.out = <<>>,
                                     !.reads = @ \cup {graph}]
                 ELSE [reader EXCEPT !.pc = "successors", !.reads = @ \cup {graph}]
    /\ UNCHANGED <<history, catalog, graph, stats, trained_at, now, ret, store,
                   runs, trainer>>

\* successors = list(self.graph.successors(current_place_id)), which raises
\* NetworkXError when the graph read now does not have the node; the
\* endpoint turns any exception into status 500
ReadSuccessors ==
    /\ reader.pc = "successors"
    /\ reader' =
          IF ~HasNode(graph, reader.current)
          THEN [reader EXCEPT !.pc = "done", !.status = InternalServerError,
                              !.reads = @ \cup {graph}]
          ELSE IF Successors(graph, reader.current) = <<>>
          THEN [reader EXCEPT !.pc = "done", !.status = OK, !.out = <<>>,
                              !.reads = @ \cup {graph}]
          ELSE [reader EXCEPT !.pc = "loop", !.k = 1,
                              !.successors = Successors(graph, reader.current),
                              !.reads = @ \cup {graph}]
    /\ UNCHANGED <<history, catalog, graph, stats, trained_at, now, ret, store,
                   runs, trainer>>

\* self.graph[current][dest_id] and self.graph[current][s] for s in
\* successors raise KeyError when the graph read now lacks the edge
LookupFails(G, current, d, successors) ==
    \/ ~HasEdge(G, current, d)
    \/ \E i \in 1..Len(successors) : ~HasEdge(G, current, successors[i])

\* the suggestion of one loop iteration, from the graph read in it
SuggestionFrom(G, current, d, successors) ==
    LET data == EdgeData(G, current, d)
        \* max([self.graph[current][s].get('weight', 1) for s in successors], default=1)
        max_weight ==
            MaxOfSeq([i \in 1..Len(successors) |->
                         EdgeData(G, current, successors[i]).weight], 1)
    IN [destination_id |-> d,
        score |-> [num |-> data.weight, den |-> Max(max_weight, 1)],
        weight |-> data.weight,
        frequency |-> data.frequency,
        distance_km |-> NoDistance]

\* one iteration of `for dest_id in successors`
ScoreSuccessor ==
    /\ reader.pc = "loop"
    /\ reader.k <= Len(reader.successors)
    /\ LET d == reader.successors[reader.k]
       IN reader' =
             IF IsExcluded(reader.exclude, d)
             THEN [reader EXCEPT !.k = @ + 1]
             ELSE IF LookupFails(graph, reader.current, d, reader.successors)
             THEN [reader EXCEPT !.pc = "done", !.status = InternalServerError,
                                 !.reads = @ \cup {graph}]
             ELSE [reader EXCEPT
                      !.k = @ + 1,
                      !.suggestions = Append(@, SuggestionFrom(graph, reader.current, d,
                                                               reader.successors)),
                      !.reads = @ \cup {graph}]
    /\ UNCHANGED <<history, catalog, graph, stats, trained_at, now, ret, store,
                   runs, trainer>>

\* sort, no distance filter (the request gives max_distance_km = 0), [:limit]
Respond ==
    /\ reader.pc = "loop"
    /\ reader.k > Len(reader.successors)
    /\ reader' = [reader EXCEPT
                     !.pc = "done", !.status = OK,
                     !.out = SortedAndFiltered(catalog, reader.current, reader.suggestions,
                                               reader.limit, FALSE, 0)]
    /\ UNCHANGED <<history, catalog, graph, stats, trained_at, now, ret, store,
                   runs, trainer>>

\* visit histories of two users and the single-visit users that make them
\* long enough or not
ServeSequences == {<<1, 2, 1>>, <<1, 2>>}
ServeHistories ==
    {HistoryOf(seqs, pad) : seqs \in [Users -> ServeSequences], pad \in {0, 7}}

\* the table of a fresh deployment and tables left by earlier ones
ServeTables == {NoRows, {Row(2, 1, 1, 1)}, {Row(1, 2, 2, 2), Row(2, 1, 2, 1)}}

InitServe ==
    /\ history \in ServeHistories
    /\ catalog = [d \in Dest |-> NotFound]
    /\ store \in ServeTables
    /\ graph = NoneGraph
    /\ stats = <<>>
    /\ trained_at = 0
    /\ now = 0
    /\ ret = NoCall
    /\ runs = <<>>
    /\ trainer = NoTask
    /\ reader = NoRequest

NextServe ==
    \/ \E min_weight \in 1..MaxMinWeight : TrainStart(min_weight)
    \/ TrainAddEdge
    \/ TrainSetStats
    \/ TrainPublish
    \/ TrainStamp
    \/ TrainSave
    \/ TrainReturn
    \/ \E current \in VisitDest, exclude \in {{}, {1}} :
            Request("suggest_next", current, MaxLimit, exclude)
    \/ \E endpoint \in {"complete_day", "optimize"} :
            Request(endpoint, 1, MaxLimit, {})
    \/ LoadSelect
    \/ LoadAddRow
    \/ LoadPublish
    \/ LoadSetStats
    \/ CheckLoaded
    \/ EngineCall
    \/ Guard
    \/ ReadSuccessors
    \/ ScoreSuccessor
    \/ Respond

SpecServe == InitServe /\ [][NextServe]_vars

(***************************************************************************)
(* Repeated training requests on unchanged visit records: the build of     *)
(* _train_graph_task(min_weight, historical_days).  `runs` logs, for every *)
(* build, the graph the model held before it, the two request values and   *)
(* the graph it returned.                                                  *)
(***************************************************************************)
Retrain ==
    \E mw \in 1..MaxMinWeight, historical_days \in HistoricalDays :
        /\ BuildCoVisitationGraph(mw)
        /\ runs' = Append(runs, [before |-> graph, min_weight |-> mw,
                                  historical_days |-> historical_days,
                                  out |-> ret'.out])

InitRetrain ==
    /\ history \in {HistoryOf(seqs, pad) :
                        seqs \in [Users -> ServeSequences \cup {<<>>, <<2, 1, 2, 2>>}],
                        pad \in {0, 7}}
    /\ catalog = NoCatalog
    /\ graph = NoneGraph
    /\ stats = <<>>
    /\ trained_at = 0
    /\ now = 0
    /\ ret = NoCall
    /\ store = NoRows
    /\ runs = <<>>
    /\ trainer = NoTask
    /\ reader = NoRequest

SpecRetrain == InitRetrain /\ [][Retrain]_vars

(***************************************************************************)
(* The two greedy procedures, one loop iteration per step.  `ret` holds    *)
(* the locals of the running call.                                         *)
(***************************************************************************)
\* suggest_complete_day up to its loop: the guard, then sequence = [start]
BeginCompleteDay(starting_place_id, max_places) ==
    /\ Idle
    /\ ret' = IF NotGraph(graph) \/ ~HasNode(graph, starting_place_id)
              THEN [op |-> "complete_day", pc |-> "done", start |-> starting_place_id,
                    max_places |-> max_places, sequence |-> <<>>, iterations |-> 0]
              ELSE [op |-> "complete_day", pc |-> "traverse", start |-> starting_place_id,
                    max_places |-> max_places, sequence |-> <<starting_place_id>>,
                    iterations |-> 0]
    /\ UNCHANGED <<history, catalog, graph, stats, trained_at, now,
                   store, runs, trainer, reader>>

\* one iteration of `for _ in range(max_places - 1)`, or the end of the range
TraverseStep ==
    /\ ret.op = "complete_day" /\ ret.pc = "traverse"
    /\ ret' =
          IF ret.iterations >= ret.max_places - 1 THEN [ret EXCEPT !.pc = "done"]
          ELSE LET current == ret.sequence[Len(ret.sequence)]
                   next_places == DayCandidates(graph, catalog, current, Range(ret.sequence))
               IN IF next_places = <<>>
                  THEN [ret EXCEPT !.pc = "done", !.iterations = @ + 1]
                  ELSE [ret EXCEPT !.sequence = Append(@, next_places[1].destination_id),
                                   !.iterations = @ + 1]
    /\ UNCHANGED <<history, catalog, graph, stats, trained_at, now,
                   store, runs, trainer, reader>>

\* optimize_itinerary up to its day loop: the early returns, then
\* remaining = destinations.copy()
BeginOptimize(destination_ids, max_days) ==
    /\ Idle
    /\ LET destinations == Resolved(catalog, destination_ids)
           early == NotGraph(graph) \/ destination_ids = <<>> \/ Len(destinations) < 2
       IN ret' = [op |-> "optimize", pc |-> IF early THEN "done" ELSE "days",
                  destination_ids |-> destination_ids, max_days |-> max_days,
                  remaining |-> IF early THEN <<>> ELSE destinations,
                  days |-> <<>>, day |-> 0, day_places |-> <<>>]
    /\ UNCHANGED <<history, catalog, graph, stats, trained_at, now,
                   store, runs, trainer, reader>>

\* the head of one iteration of `for day in range(max_days)`:
\* if not remaining: break; current = remaining.pop(0)
DayStep ==
    /\ ret.op = "optimize" /\ ret.pc = "days"
    /\ ret' = IF ret.day >= ret.max_days \/ ret.remaining = <<>>
              THEN [ret EXCEPT !.pc = "done"]
              ELSE [ret EXCEPT !.pc = "grow",
                               !.day_places = <<Head(ret.remaining)>>,
                               !.remaining = Tail(@)]
    /\ UNCHANGED <<history, catalog, graph, stats, trained_at, now,
                   store, runs, trainer, reader>>

\* one iteration of `while len(day_places) < 4 and remaining`, or the end of
\* the while loop and days.append(...)
GrowStep ==
    /\ ret.op = "optimize" /\ ret.pc = "grow"
    /\ LET closed == [ret EXCEPT
                         !.pc = "days", !.day = @ + 1, !.day_places = <<>>,
                         !.days = Append(@, [day |-> ret.day + 1,
                                             places |-> ret.day_places])]
       IN ret' =
             IF ~(Len(ret.day_places) < PlacesPerDay /\ ret.remaining # <<>>) THEN closed
             ELSE LET current == ret.day_places[Len(ret.day_places)]
                      k == BestNext(graph, current, ret.remaining, 1, 0, -1)
                  IN IF k = 0 THEN closed
                     ELSE [ret EXCEPT
                              !.day_places = Append(@, ret.remaining[k]),
                              !.remaining = RemoveFirst(@, ret.remaining[k])]
    /\ UNCHANGED <<history, catalog, graph, stats, trained_at, now,
                   store, runs, trainer, reader>>

\* graphs with a self-loop and a cycle; place 2 known to the catalog or not
InitLoops ==
    /\ history = <<>>
    /\ catalog \in {[d \in Dest |-> IF d = 1 THEN Located(1000, <<>>)
                                   ELSE IF d = 2 THEN c2 ELSE Located(13000, <<>>)] :
                       c2 \in {Located(2006, <<>>), NotFound}}
    /\ graph \in GraphsOver({<<1, 1>>, <<1, 2>>, <<2, 1>>})
    /\ stats = PublishedStats(graph)
    /\ trained_at = 1
    /\ now = 1
    /\ ret = NoCall
    /\ store = NoRows
    /\ runs = <<>>
    /\ trainer = NoTask
    /\ reader = NoRequest

NextLoops ==
    \/ \E start \in VisitDest, max_places \in 2..MaxPlaces :
          BeginCompleteDay(start, max_places)
    \/ TraverseStep
    \/ \E destination_ids \in {<<3, 3>>, <<1, 2, 3>>, <<2, 1, 1, 3, 2>>},
          max_days \in 1..MaxDays :
          BeginOptimize(destination_ids, max_days)
    \/ DayStep
    \/ GrowStep

\* a call that has begun keeps running: its thread is not suspended for
\* ever.  Each loop is weakly fair; for the traversal loop the condition
\* WF_vars(TraverseStep) is written with its ENABLED spelled out, a traversal
\* step being possible exactly while a complete-day call is in its loop.
SpecLoops ==
    /\ InitLoops
    /\ [][NextLoops]_vars
    /\ WF_vars(DayStep)
    /\ WF_vars(GrowStep)
    /\ \/ []<>(~(ret.op = "complete_day" /\ ret.pc = "traverse"))
       \/ []<><<TraverseStep>>_vars

(***************************************************************************)
(* C1                                                                      *)
(***************************************************************************)
\* every user's destinations in visiting order
UserDests(h) == [u \in {h[k].user_id : k \in 1..Len(h)} |-> Destinations(h, u)]

\* the number of positions, over all users, where src is followed by dst
PairCountIn(ud, s, d) ==
    Cardinality({x \in UNION {{<<u, i>> : i \in 1..(Len(ud[u]) - 1)} : u \in DOMAIN ud} :
                    ud[x[1]][x[2]] = s /\ ud[x[1]][x[2] + 1] = d})

PairCount(h, s, d) == PairCountIn(UserDests(h), s, d)

NoDuplicates(s) == \A i, j \in 1..Len(s) : s[i] = s[j] => i = j

EdgeKeys(G) == [i \in 1..Len(G.edges) |-> <<G.edges[i].src, G.edges[i].dst>>]

\* C1: the graph a build publishes holds the edge (src, dst) iff the pair's
\* count is >= min_weight, each edge once with weight = frequency = that
\* count, and its nodes are exactly the endpoints of its edges.
C1_PublishedGraphIsFilteredCounts ==
    (ret.op = "build" /\ ret.published) =>
        LET ud == UserDests(history)
        IN /\ graph = ret.out
           /\ \A s, d \in Dest :
                 HasEdge(graph, s, d) <=> PairCountIn(ud, s, d) >= ret.min_weight
           /\ \A i \in 1..Len(graph.edges) :
                 LET e == graph.edges[i]
                 IN /\ e.weight = PairCountIn(ud, e.src, e.dst)
                    /\ e.frequency = e.weight
           /\ NoDuplicates(EdgeKeys(graph))
           /\ NoDuplicates(graph.nodes)
           /\ NodeSet(graph) =
                 {graph.edges[i].src : i \in 1..Len(graph.edges)}
                    \cup {graph.edges[i].dst : i \in 1..Len(graph.edges)}

\* a build published a graph that dropped a pair seen fewer than min_weight
\* times, whose target is therefore no node, and kept another
C1_Witness ==
    /\ ret.op = "build" /\ ret.published
    /\ NumberOfEdges(graph) >= 1
    /\ \E s, d \in Dest :
          /\ PairCount(history, s, d) >= 1
          /\ PairCount(history, s, d) < ret.min_weight
          /\ ~HasNode(graph, d)

(***************************************************************************)
(* C2 - C7: suggest_next_places                                            *)
(***************************************************************************)
IsNextCall == ret.op = "suggest_next"

SuccSet == {d \in Dest : HasEdge(graph, ret.current, d)}
WeightTo(d) == EdgeData(graph, ret.current, d).weight
IsMaxWeight(d) == \A e \in SuccSet : WeightTo(e) <= WeightTo(d)

\* the distance filter was requested and the current place has coordinates
FilterActive ==
    /\ ret.consider_distance /\ ret.max_distance_km > 0
    /\ GetDestinationLocation(catalog, ret.current).found

\* metres between the current place and d; Inf when either has no coordinates
DistanceTo(d) ==
    LET a == catalog[ret.current]
        b == catalog[d]
    IN IF a.status = "ok" /\ b.status = "ok" /\ a.lat # 0 /\ b.lat # 0
             /\ a.lng # 0 /\ b.lng # 0
       THEN Abs(a.lat - b.lat)
       ELSE Inf

Near(d) == DistanceTo(d) <= ret.max_distance_km

Ids(xs) == [i \in 1..Len(xs) |-> xs[i].destination_id]

\* every non-excluded successor, ranked: the call without distance and limit
Ranked ==
    SuggestNextPlaces(graph, catalog, ret.current, Len(graph.edges), ret.exclude,
                      FALSE, ret.max_distance_km)

ScoresInUnitInterval ==
    \A i \in 1..Len(ret.out) :
        0 < ret.out[i].score.num /\ ret.out[i].score.num <= ret.out[i].score.den

\* C2 as stated: the first score of a non-empty result is 1.0, the others lie
\* in (0, 1], for any exclude set, limit and distance setting.
C2_FirstScoreIsOne ==
    (IsNextCall /\ ret.out # <<>>) =>
        /\ IsOne(ret.out[1].score)
        /\ ScoresInUnitInterval

\* C2 amended: every score of a result lies in (0, 1], and the first one is
\* 1.0 exactly when a successor of maximal weight (over all successors of
\* the current place) is neither excluded nor dropped by the distance filter.
C2_FirstScoreIsOneUnlessBestDropped ==
    (IsNextCall /\ ret.out # <<>>) =>
        /\ ScoresInUnitInterval
        /\ IsOne(ret.out[1].score) <=>
              \E d \in SuccSet :
                  /\ IsMaxWeight(d)
                  /\ d \notin ret.exclude
                  /\ FilterActive => Near(d)

\* two suggestions, the best successor excluded: the first score is below 1
C2_Witness ==
    /\ IsNextCall
    /\ Len(ret.out) >= 2
    /\ ~IsOne(ret.out[1].score)
    /\ \E d \in SuccSet \cap ret.exclude : IsMaxWeight(d)

\* C3 as stated: the result is in descending order of score, and suggestions
\* of equal score are in ascending order of destination id.
C3_DescendingScoreThenAscendingId ==
    IsNextCall =>
        \A i, j \in 1..Len(ret.out) :
            i < j =>
                /\ ~ScoreLess(ret.out[i].score, ret.out[j].score)
                /\ ScoreEq(ret.out[i].score, ret.out[j].score)
                      => ret.out[i].destination_id < ret.out[j].destination_id

\* C5: no excluded id is returned, every returned id is a direct successor of
\* the current place, and at most `limit` suggestions are returned.
C5_ExcludedNeverSuccessorsOnlyAtMostLimit ==
    IsNextCall =>
        /\ \A i \in 1..Len(ret.out) :
              /\ ret.out[i].destination_id \notin ret.exclude
              /\ HasEdge(graph, ret.current, ret.out[i].destination_id)
        /\ NoDuplicates(Ids(ret.out))
        /\ Len(ret.out) <= ret.limit

\* a full result, with a successor excluded and more successors than `limit`
C5_Witness ==
    /\ IsNextCall
    /\ Len(ret.out) = ret.limit
    /\ SuccSet \cap ret.exclude # {}
    /\ Cardinality(SuccSet \ ret.exclude) > ret.limit

\* the ids the distance filter keeps: the near ones among the first
\* 2 x limit of the ranking, in ranking order, cut to `limit`
NearOfWindow ==
    Take(SelectSeq(Ids(Take(Ranked, 2 * ret.limit)), Near), ret.limit)

\* C6 as stated: with the filter active only the 2 x limit top-ranked
\* candidates are examined, the result is the near ones among them in ranking
\* order cut to `limit`, and every distance_km is <= max_distance_km.
C6_DistanceKmWithinMax ==
    (IsNextCall /\ FilterActive) =>
        /\ Ids(ret.out) = NearOfWindow
        /\ \A i \in 1..Len(ret.out) :
              /\ ret.out[i].distance_km # NoDistance
              /\ ret.out[i].distance_km <= ret.max_distance_km

\* C6 amended: as stated, except that distance_km is the distance rounded to
\* 2 decimals: the distance itself is <= max_distance_km, the rounded value
\* is <= max_distance_km rounded to 2 decimals.
C6_RoundedDistanceOfNearCandidates ==
    (IsNextCall /\ FilterActive) =>
        /\ Ids(ret.out) = NearOfWindow
        /\ \A i \in 1..Len(ret.out) :
              LET d == ret.out[i].destination_id
              IN /\ DistanceTo(d) <= ret.max_distance_km
                 /\ ret.out[i].distance_km = Round2(DistanceTo(d))
                 /\ ret.out[i].distance_km <= Round2(ret.max_distance_km)

\* the filter dropped a far candidate of the window, never looked at a near
\* one behind the window, and returned a near one of the window
C6_Witness ==
    /\ IsNextCall /\ FilterActive
    /\ ret.out # <<>>
    /\ \E i \in 1..Len(Ranked) :
          /\ i <= 2 * ret.limit
          /\ ~Near(Ranked[i].destination_id)
    /\ \E i \in 1..Len(Ranked) :
          /\ i > 2 * ret.limit
          /\ Near(Ranked[i].destination_id)

\* C7: when the catalog gives no coordinates for the current place, a call
\* that asks for distance filtering returns what the call without it returns:
\* the first `limit` of the ranking, no suggestion carrying distance_km.
C7_NoCurrentLocationSkipsFilter ==
    (/\ IsNextCall
     /\ ret.consider_distance /\ ret.max_distance_km > 0
     /\ ~GetDestinationLocation(catalog, ret.current).found) =>
        /\ ret.out = SuggestNextPlaces(graph, catalog, ret.current, ret.limit,
                                       ret.exclude, FALSE, ret.max_distance_km)
        /\ Ids(ret.out) = Ids(Take(Ranked, ret.limit))
        /\ \A i \in 1..Len(ret.out) : ret.out[i].distance_km = NoDistance

\* the lookup of the current place failed and suggestions were returned, one
\* of them for a place the filter would have dropped
C7_Witness ==
    /\ IsNextCall
    /\ ret.consider_distance /\ ret.max_distance_km > 0
    /\ catalog[ret.current].status = "error"
    /\ \E i \in 1..Len(ret.out) :
          ~GetDestinationLocation(catalog, ret.out[i].destination_id).found

(***************************************************************************)
(* C4: insufficient data                                                   *)
(***************************************************************************)
IsDayCall == ret.op = "complete_day"
IsOptimizeCall == ret.op = "optimize"

EmptyItinerary(r) == r.days = <<>> /\ r.total_distance_km = 0

\* the model has no graph, or a graph without nodes
NoGraphOrEmpty == graph.none \/ graph.nodes = <<>>

\* the place a call asks about is no node, or a node without outgoing edges
NoSuccessorsOf(d) == ~HasNode(graph, d) \/ Successors(graph, d) = <<>>

\* C4 as stated: without a graph, with an empty graph, for an id that is no
\* node or a node without outgoing edges, suggest_next_places and
\* suggest_complete_day return [] and optimize_itinerary returns no days and
\* a total of 0.
C4_InsufficientDataGivesEmptyResults ==
    /\ (IsNextCall /\ (NoGraphOrEmpty \/ NoSuccessorsOf(ret.current)))
          => ret.out = <<>>
    /\ (IsDayCall /\ (NoGraphOrEmpty \/ NoSuccessorsOf(ret.start)))
          => ret.out = <<>>
    /\ (IsOptimizeCall /\ (NoGraphOrEmpty
                             \/ \A i \in 1..Len(ret.destination_ids) :
                                   NoSuccessorsOf(ret.destination_ids[i])))
          => EmptyItinerary(ret.out)

\* the state part of C4 amended
C4_EmptyResultCases ==
    /\ (IsNextCall /\ (NoGraphOrEmpty \/ NoSuccessorsOf(ret.current)))
          => ret.out = <<>>
    /\ (IsDayCall /\ (NoGraphOrEmpty \/ ~HasNode(graph, ret.start)))
          => ret.out = <<>>
    /\ (IsDayCall /\ HasNode(graph, ret.start) /\ Successors(graph, ret.start) = <<>>)
          => /\ ret.sequence = <<ret.start>>
             /\ Ids(ret.out) = IF catalog[ret.start].status = "ok"
                               THEN <<ret.start>> ELSE <<>>
    /\ (IsOptimizeCall /\ NoGraphOrEmpty) => EmptyItinerary(ret.out)

\* C4 amended: without a graph or with an empty graph all three calls give
\* the empty result; for an id that is no node suggest_next_places and
\* suggest_complete_day return []; for a node without outgoing edges
\* suggest_next_places returns [], while suggest_complete_day returns the
\* summary of the starting place alone (if the catalog has it);
\* optimize_itinerary does not depend on the ids being nodes.  No query
\* changes the graph, the statistics or trained_at.
C4_InsufficientDataAmended ==
    /\ []C4_EmptyResultCases
    /\ [][(ret' # ret) => (graph' = graph /\ stats' = stats
                            /\ trained_at' = trained_at)]_vars

\* suggest_complete_day was asked about a node without outgoing edges and
\* returned the starting place
C4_Witness ==
    /\ IsDayCall
    /\ HasNode(graph, ret.start) /\ Successors(graph, ret.start) = <<>>
    /\ Len(ret.out) = 1

(***************************************************************************)
(* C8, C9: suggest_complete_day                                            *)
(***************************************************************************)
\* C8: the chain starts with the starting place, repeats no id, has at most
\* max_places ids, follows edges of the graph, and the returned list is the
\* chain restricted to the ids the catalog has details for.
C8_ChainIsSimplePathFromStart ==
    (IsDayCall /\ HasNode(graph, ret.start)) =>
        /\ ret.sequence # <<>>
        /\ ret.sequence[1] = ret.start
        /\ NoDuplicates(ret.sequence)
        /\ Len(ret.sequence) <= ret.max_places
        /\ \A i \in 1..(Len(ret.sequence) - 1) :
              HasEdge(graph, ret.sequence[i], ret.sequence[i + 1])
        /\ Ids(ret.out) = SelectSeq(ret.sequence, LAMBDA d : catalog[d].status = "ok")

\* a chain of 3 places in a graph with a cycle through the chain, one of the
\* places unknown to the catalog
C8_Witness ==
    /\ IsDayCall
    /\ Len(ret.sequence) = 3
    /\ \E i, j \in 1..3 : i <= j /\ HasEdge(graph, ret.sequence[j], ret.sequence[i])
    /\ Len(ret.out) < Len(ret.sequence)

LastOfChain == ret.sequence[Len(ret.sequence)]
Unvisited == {d \in Dest : HasEdge(graph, LastOfChain, d)} \ Range(ret.sequence)

\* C9 as stated: a chain shorter than max_places ends at a place with no
\* successor outside the chain.
C9_ShortChainHasNoUnvisitedSuccessor ==
    (IsDayCall /\ ret.sequence # <<>> /\ Len(ret.sequence) < ret.max_places) =>
        Unvisited = {}

\* the successors of the last place outside the chain, ranked, that the
\* distance filter of suggest_next_places looks at (the first 2 x 10)
ExaminedFromLast ==
    Ids(Take(SuggestNextPlaces(graph, catalog, LastOfChain, Len(graph.edges),
                               Range(ret.sequence), FALSE, DefaultMaxDistance),
             2 * DayLimit))

WithinDefaultDistance(a, b) ==
    /\ GetDestinationLocation(catalog, a).found
    /\ GetDestinationLocation(catalog, b).found
    /\ Abs(catalog[a].lat - catalog[b].lat) <= DefaultMaxDistance

\* C9 amended: a chain shorter than max_places ends at a place that has no
\* successor outside the chain, or that has coordinates while none of its
\* 20 best-ranked successors outside the chain has coordinates within 10 km.
C9_ShortChainHasNoReachableSuccessor ==
    (IsDayCall /\ ret.sequence # <<>> /\ Len(ret.sequence) < ret.max_places) =>
        \/ Unvisited = {}
        \/ /\ GetDestinationLocation(catalog, LastOfChain).found
           /\ \A i \in 1..Len(ExaminedFromLast) :
                 ~WithinDefaultDistance(LastOfChain, ExaminedFromLast[i])

\* a chain that grew and then stopped short in front of a place too far away
C9_Witness ==
    /\ IsDayCall
    /\ Len(ret.sequence) = 2 /\ ret.max_places = 3
    /\ Unvisited # {}

(***************************************************************************)
(* C10: optimize_itinerary, total_distance_km                              *)
(***************************************************************************)
\* metres between two catalog places; Inf when one has no coordinates
CatalogDistance(a, b) ==
    IF GetDestinationLocation(catalog, a).found /\ GetDestinationLocation(catalog, b).found
    THEN Abs(catalog[a].lat - catalog[b].lat)
    ELSE Inf

\* the legs between consecutive places of the same day
IntraDayLegs(days) ==
    FlattenSeq([k \in 1..Len(days) |->
        [i \in 1..(Len(days[k].places) - 1) |->
            CatalogDistance(days[k].places[i].id, days[k].places[i + 1].id)]])

SumOfLegs(legs) ==
    IF \E i \in 1..Len(legs) : IsInf(legs[i]) THEN Inf ELSE SumSeq(legs)

\* C10 as stated: total_distance_km is the sum of the distances between
\* consecutive places of the same day.
C10_TotalIsIntraDaySum ==
    IsOptimizeCall => ret.out.total_distance_km = SumOfLegs(IntraDayLegs(ret.out.days))

\* C10 amended: total_distance_km is that sum rounded to 2 decimals; the leg
\* from one day's last place to the next day's first place is not in it.
C10_TotalIsRoundedIntraDaySum ==
    IsOptimizeCall =>
        ret.out.total_distance_km = Round2(SumOfLegs(IntraDayLegs(ret.out.days)))

\* two days with a finite total and a cross-day leg of positive length
C10_Witness ==
    /\ IsOptimizeCall
    /\ Len(ret.out.days) = 2
    /\ ~IsInf(ret.out.total_distance_km)
    /\ ret.out.total_distance_km > 0
    /\ LET last == ret.out.days[1].places[Len(ret.out.days[1].places)]
           first == ret.out.days[2].places[1]
       IN /\ ~IsInf(CatalogDistance(last.id, first.id))
          /\ CatalogDistance(last.id, first.id) > 0

(***************************************************************************)
(* C11 - C14: optimize_itinerary, the days                                 *)
(***************************************************************************)
\* the requested ids the catalog has a row for, in request order
ResolvedIds == SelectSeq(ret.destination_ids, LAMBDA d : catalog[d].status = "ok")

\* the ids of the places of the days, in order
PlacedIds(days) ==
    FlattenSeq([k \in 1..Len(days) |->
        [i \in 1..Len(days[k].places) |-> days[k].places[i].id]])

\* the number of places in the first k days
PlacedThrough(days, k) == SumSeq([j \in 1..k |-> Len(days[j].places)])

CountOf(xs, d) == Cardinality({i \in 1..Len(xs) : xs[i] = d})

\* C11: with at least 2 resolved destinations the result has at most max_days
\* days of 1 to 4 places each, a day has fewer than 4 places only when every
\* resolved destination is placed by then, and every day but the last has 4.
C11_DaysAreFullUntilNothingRemains ==
    (IsOptimizeCall /\ Len(ResolvedIds) >= 2) =>
        LET days == ret.out.days
        IN /\ Len(days) <= ret.max_days
           /\ \A k \in 1..Len(days) :
                 /\ 1 <= Len(days[k].places)
                 /\ Len(days[k].places) <= PlacesPerDay
                 /\ Len(days[k].places) < PlacesPerDay
                       => PlacedThrough(days, k) = Len(ResolvedIds)
           /\ \A k \in 1..(Len(days) - 1) : Len(days[k].places) = PlacesPerDay

\* a full first day in which a place of combined score 0 was selected (no
\* edge to it, and too far away or without coordinates), and a second day
C11_Witness ==
    /\ IsOptimizeCall
    /\ Len(ret.out.days) = 2
    /\ Len(ret.out.days[1].places) = PlacesPerDay
    /\ \E i \in 1..(PlacesPerDay - 1) :
          Score(graph, ret.out.days[1].places[i], ret.out.days[1].places[i + 1]) = 0

\* the row of a resolved destination has no latitude or no longitude
WithoutCoordinates(d) ==
    catalog[d].status = "ok" /\ (catalog[d].lat = 0 \/ catalog[d].lng = 0)

\* C12 as stated: a resolved destination without latitude or longitude is in
\* no day of the result, and total_distance_km is finite.
C12_PlaceWithoutCoordinatesIsExcluded ==
    IsOptimizeCall =>
        /\ \A i \in 1..Len(PlacedIds(ret.out.days)) :
              ~WithoutCoordinates(PlacedIds(ret.out.days)[i])
        /\ ~IsInf(ret.out.total_distance_km)

\* C13 as stated: every placed id is a resolved requested id, no requested
\* occurrence is placed twice, and all resolved destinations are placed iff
\* there are at most 4 x max_days of them.
C13_AllPlacedIffAtMostFourPerDay ==
    IsOptimizeCall =>
        LET placed == PlacedIds(ret.out.days)
        IN /\ \A d \in Dest : CountOf(placed, d) <= CountOf(ResolvedIds, d)
           /\ (\A d \in Dest : CountOf(placed, d) = CountOf(ResolvedIds, d))
                 <=> Len(ResolvedIds) <= PlacesPerDay * ret.max_days

\* C13 amended: as stated when the model holds a graph with at least one
\* node; without a graph, or with an empty one, nothing is placed.
C13_AllPlacedIffGraphAndAtMostFourPerDay ==
    IsOptimizeCall =>
        LET placed == PlacedIds(ret.out.days)
        IN /\ \A d \in Dest : CountOf(placed, d) <= CountOf(ResolvedIds, d)
           /\ NoGraphOrEmpty => placed = <<>>
           /\ ~NoGraphOrEmpty =>
                 ((\A d \in Dest : CountOf(placed, d) = CountOf(ResolvedIds, d))
                     <=> Len(ResolvedIds) <= PlacesPerDay * ret.max_days)

\* more resolved destinations than 4 x max_days, one id requested twice: the
\* days are full and a resolved destination is missing from the result
C13_Witness ==
    /\ IsOptimizeCall /\ ~NoGraphOrEmpty
    /\ Len(ResolvedIds) > PlacesPerDay * ret.max_days
    /\ Len(PlacedIds(ret.out.days)) = PlacesPerDay * ret.max_days
    /\ \E d \in Dest : CountOf(ResolvedIds, d) >= 2

\* C14 as stated: every result of optimize_itinerary carries
\* optimization_method = "graph_and_distance".
C14_EveryResultIsTagged ==
    IsOptimizeCall => ret.out.optimization_method = "graph_and_distance"

(***************************************************************************)
(* C15 - C17: save_to_database and load_from_database                      *)
(***************************************************************************)
EdgeSet(G) == Range(G.edges)

\* the rows that describe the edges of G
RowsOfGraph(G) ==
    {Row(e.src, e.dst, e.weight, e.frequency) : e \in EdgeSet(G)}

KeysUnique(table) == \A r, q \in table : SameKey(r, q) => r = q

IsSave == ret.op = "save"
IsLoad == ret.op = "load"
LoadAfterSave == IsLoad /\ ret.ok /\ ret.prior.op = "save" /\ ret.prior.ok

\* C15: after a successful load that directly follows a successful save the
\* graph has exactly the edges of the saved graph, each once with the same
\* weight and frequency, and the same nodes, whatever the table held before
\* the save and in whatever order the rows came back.
C15_LoadAfterSaveRestoresEdges ==
    LoadAfterSave =>
        /\ EdgeSet(graph) = EdgeSet(ret.prior.graph)
        /\ NoDuplicates(EdgeKeys(graph))
        /\ NodeSet(graph) = NodeSet(ret.prior.graph)

\* the table held a row of an edge the saved graph does not have, and the
\* rows came back in another order than the edges of the saved graph
C15_Witness ==
    /\ LoadAfterSave
    /\ \E r \in ret.prior.before :
          ~HasEdge(graph, r.destination_a_id, r.destination_b_id)
    /\ graph.edges # ret.prior.graph.edges
    /\ NumberOfEdges(graph) >= 2

\* C16: after a successful save the table holds exactly one row per edge of
\* the graph, with the edge's weight and frequency (a row stored before
\* under the same key is overwritten), and a save on a table that already
\* holds these rows leaves it as it is.
C16_SaveStoresOneRowPerEdge ==
    (IsSave /\ ret.ok) =>
        /\ store = RowsOfGraph(graph)
        /\ KeysUnique(store)
        /\ Cardinality(store) = NumberOfEdges(graph)
        /\ ret.before = RowsOfGraph(graph) => store = ret.before

\* a save over a table that held a row of the same key with other values
C16_Witness ==
    /\ IsSave /\ ret.ok
    /\ \E r \in ret.before, q \in store :
          /\ SameKey(r, q)
          /\ r.weight # q.weight
          /\ q.frequency > 1

\* C17: a save or a load that returns False leaves model.graph, model.stats
\* and model.trained_at as they were.
C17_FailedPersistenceKeepsGraph ==
    [][(ret' # ret /\ ret'.op \in {"save", "load"} /\ ~ret'.ok)
          => (graph' = graph /\ stats' = stats /\ trained_at' = trained_at)]_vars

\* a load failed while the model held a graph that differs from the table
C17_Witness ==
    /\ IsLoad /\ ~ret.ok
    /\ ~NotGraph(graph)
    /\ store # {}
    /\ store # RowsOfGraph(graph)

(***************************************************************************)
(* C18, C19: training while requests are served                            *)
(***************************************************************************)
\* G has exactly the pairs of the history counted at least min_weight times
IsBuildOf(G, min_weight) ==
    /\ \A s, d \in Dest :
          HasEdge(G, s, d) <=> PairCount(history, s, d) >= min_weight
    /\ \A e \in EdgeSet(G) :
          e.weight = PairCount(history, e.src, e.dst) /\ e.frequency = e.weight
    /\ NoDuplicates(EdgeKeys(G))

\* G has exactly one edge per row the load fetched
IsLoadOf(G, rows) ==
    /\ RowsOfGraph(G) = Range(rows)
    /\ NumberOfEdges(G) = Len(rows)

\* C18: model.graph changes only in the single assignment that ends a build
\* or a load, and the graph assigned is complete: all edges of that build, or
\* all rows that load fetched.  No other step of the trainer, of the loader
\* or of a query changes the graph the model holds.
C18_GraphReplacedOnlyByCompleteGraph ==
    [][graph' # graph =>
          \/ /\ trainer.pc = "publish" /\ trainer'.pc = "stamp"
             /\ IsBuildOf(graph', trainer.min_weight)
          \/ /\ reader.pc = "load_rows" /\ reader'.pc = "load_stats"
             /\ IsLoadOf(graph', reader.fetched)]_vars

\* a build has assembled part of its edges in the local graph while the
\* model still serves the complete graph of the previous build
C18_Witness ==
    /\ trainer.pc = "assemble"
    /\ NumberOfEdges(trainer.G) >= 1
    /\ \E i \in 1..Len(trainer.pending) :
          RetainEdge(trainer.pending[i].count, trainer.min_weight)
    /\ ~NotGraph(graph)
    /\ graph # trainer.G
    /\ trained_at >= 1

\* C19 as stated: a suggest-next call that overlaps a training run never
\* fails because a node or an edge it enumerated is missing from the graph
\* it reads next, and its answer is the answer of one single graph version
\* among those the model held during the call.
C19_RequestAnswersFromOneGraphVersion ==
    (reader.pc = "done" /\ reader.endpoint = "suggest_next"
        /\ reader.status # ServiceUnavailable) =>
        /\ reader.status = OK
        /\ \E G \in reader.reads :
              reader.out = SuggestNextPlaces(G, catalog, reader.current, reader.limit,
                                             reader.exclude, FALSE, 0)

WindowBuild(days, min_weight) ==
    LET window == FetchVisitHistory(history, days)
    IN IF Len(window) < MinRecords THEN DiGraph
       ELSE BuiltGraph(window, min_weight)

\* C21: every training run builds from the visits of the last historical_days
\* days, historical_days being the value of its request: the graph it returns
\* is the graph of that window's records.
C21_BuildUsesRequestedWindow ==
    \A i \in 1..Len(runs) :
        runs[i].out = WindowBuild(runs[i].historical_days, runs[i].min_weight)

(***************************************************************************)
(* C22: what an edge weight counts                                         *)
(***************************************************************************)
\* the number of users whose sequence holds src directly followed by dst
UsersWithPair(ud, s, d) ==
    Cardinality({u \in DOMAIN ud :
                    \E i \in 1..(Len(ud[u]) - 1) : ud[u][i] = s /\ ud[u][i + 1] = d})

\* C22: the weight of every edge of a published graph is the number of user
\* sequences that contain its pair, a user counting once however often the
\* pair occurs in the sequence, and the frequency is that number too.
C22_WeightCountsUserSequences ==
    (ret.op = "build" /\ ret.published) =>
        LET ud == UserDests(history)
        IN \A i \in 1..Len(graph.edges) :
              LET e == graph.edges[i]
              IN /\ e.weight = UsersWithPair(ud, e.src, e.dst)
                 /\ e.frequency = UsersWithPair(ud, e.src, e.dst)

(***************************************************************************)
(* C23: the statistics of a build                                          *)
(***************************************************************************)
\* the raw consecutive transitions of all users, whatever their pair
RawTransitions(ud) ==
    Cardinality(UNION {{<<u, i>> : i \in 1..(Len(ud[u]) - 1)} : u \in DOMAIN ud})

\* C23: after a build that publishes a graph, stats.nodes and stats.edges are
\* the node and edge counts of that graph, stats.sequences is the number of
\* raw consecutive transitions of all users (filtered-out pairs included),
\* and stats.avg_out_degree is (sum of out-degrees) / nodes, 0 without nodes.
C23_StatsDescribePublishedGraph ==
    (ret.op = "build" /\ ret.published) =>
        LET n == Cardinality(NodeSet(graph))
            m == Cardinality({<<graph.edges[i].src, graph.edges[i].dst>> :
                                 i \in 1..Len(graph.edges)})
            out_degrees ==
                [v \in NodeSet(graph) |->
                    Cardinality({d \in Dest : HasEdge(graph, v, d)})]
            degree_sum == SumSeq([k \in 1..Len(graph.nodes) |-> out_degrees[graph.nodes[k]]])
        IN /\ stats.nodes = n
           /\ stats.edges = m
           /\ stats.sequences = RawTransitions(UserDests(history))
           /\ stats.avg_out_degree.den > 0
           /\ IF n = 0 THEN stats.avg_out_degree.num = 0
              ELSE stats.avg_out_degree.num * n = degree_sum * stats.avg_out_degree.den

\* a published graph with a node, built from a history in which some pair
\* was filtered out
C23_Witness ==
    /\ ret.op = "build" /\ ret.published
    /\ stats.nodes >= 1
    /\ \E s, d \in Dest :
          /\ PairCount(history, s, d) >= 1
          /\ ~HasEdge(graph, s, d)
    /\ stats.sequences > stats.edges

(***************************************************************************)
(* C24: the counter of a pair                                              *)
(***************************************************************************)
\* row q is the visit of the same user that follows row r in time
FollowsInTime(h, r, q) ==
    /\ h[q].user_id = h[r].user_id
    /\ h[q].visited_at > h[r].visited_at
    /\ \A k \in 1..Len(h) :
          (h[k].user_id = h[r].user_id /\ h[k].visited_at > h[r].visited_at)
              => h[k].visited_at >= h[q].visited_at

\* the visits to src whose user's next visit is to dst, counted on the rows
Successions(h, s, d) ==
    Cardinality({r \in 1..Len(h) :
                    /\ h[r].destination_id = s
                    /\ \E q \in 1..Len(h) :
                          FollowsInTime(h, r, q) /\ h[q].destination_id = d})

\* the counter the build holds for a pair, 0 for a pair it never saw
CounterOf(ew, s, d) ==
    SumSeq([i \in 1..Len(ew) |-> IF ew[i].key = <<s, d>> THEN ew[i].count ELSE 0])

\* C24: the counter of (src, dst) is the number of positions, over all users,
\* where a visit to src is directly followed in time by a visit of the same
\* user to dst (src = dst included); the published graph holds the edge, a
\* self-loop included, exactly when that number reaches min_weight.
C24_CounterCountsPositionsPerUser ==
    (ret.op = "build" /\ ret.published) =>
        LET ew == EdgeWeights(FetchVisitHistory(history, DefaultDays))
        IN \A s, d \in Dest :
              /\ CounterOf(ew, s, d) = Successions(history, s, d)
              /\ HasEdge(graph, s, d) <=> Successions(history, s, d) >= ret.min_weight
              /\ HasEdge(graph, s, d) =>
                    EdgeData(graph, s, d).weight = Successions(history, s, d)

\* a published graph with a self-loop, built from a history in which the
\* last visit of one user and the first visit of the next form a pair that
\* no user made, and in which a user has a single visit
C24_Witness ==
    /\ ret.op = "build" /\ ret.published
    /\ \E a \in Dest : HasEdge(graph, a, a)
    /\ \E i \in 1..(Len(history) - 1) :
          /\ history[i].user_id # history[i + 1].user_id
          /\ Successions(history, history[i].destination_id,
                         history[i + 1].destination_id) = 0
    /\ \E i \in 1..Len(history) :
          \A k \in 1..Len(history) : history[k].user_id = history[i].user_id => k = i

(***************************************************************************)
(* C25: optimize_itinerary, the anchor and the growth steps                *)
(***************************************************************************)
\* xs after removing, for each id of placed in turn, its first occurrence
RECURSIVE WithoutPlaced(_, _)
WithoutPlaced(xs, placed) ==
    IF placed = <<>> THEN xs
    ELSE LET first == CHOOSE i \in 1..Len(xs) :
                          xs[i] = Head(placed) /\ \A j \in 1..(i - 1) : xs[j] # Head(placed)
         IN WithoutPlaced([i \in 1..(Len(xs) - 1) |-> IF i < first THEN xs[i] ELSE xs[i + 1]],
                          Tail(placed))

\* 0.6 * weight / 10 + 0.4 * max(0, 1 - km / 50), multiplied by 500000
CombinedScore(last, c) ==
    LET w == IF HasEdge(graph, last, c) THEN EdgeData(graph, last, c).weight ELSE 0
        m == CatalogDistance(last, c)
    IN 30000 * w + (IF m >= Inf THEN 0 ELSE Max(0, 200000 - 4 * m))

\* the request entries not placed before position p of day k
RemainingAt(days, k, p) ==
    WithoutPlaced(ResolvedIds,
                  SubSeq(PlacedIds(days), 1, PlacedThrough(days, k - 1) + p - 1))

\* C25: each day's anchor is the first entry of the request not placed yet,
\* and every further place of a day is a remaining entry of maximal combined
\* score from the place before it, the earliest of the remaining order among
\* those of maximal score.
C25_AnchorFirstThenBestScoreEarliest ==
    (IsOptimizeCall /\ ret.out.optimization_method # NoMethod) =>
        LET days == ret.out.days
        IN \A k \in 1..Len(days) : \A p \in 1..Len(days[k].places) :
              LET rem == RemainingAt(days, k, p)
                  c == days[k].places[p].id
              IN /\ rem # <<>>
                 /\ IF p = 1 THEN c = rem[1]
                    ELSE LET last == days[k].places[p - 1].id
                         IN \E j \in 1..Len(rem) :
                               /\ rem[j] = c
                               /\ \A i \in 1..Len(rem) :
                                     CombinedScore(last, rem[i]) <= CombinedScore(last, c)
                               /\ \A i \in 1..(j - 1) :
                                     CombinedScore(last, rem[i]) < CombinedScore(last, c)

\* a growth step that took the earlier of two different places of equal
\* maximal score, and a growth step that passed over the first remaining
\* entry for a later one of higher score
C25_Witness ==
    /\ IsOptimizeCall /\ ret.out.optimization_method # NoMethod
    /\ LET days == ret.out.days
       IN /\ \E k \in 1..Len(days) : \E p \in 2..Len(days[k].places) :
                LET rem == RemainingAt(days, k, p)
                    last == days[k].places[p - 1].id
                    c == days[k].places[p].id
                IN \E i \in 1..Len(rem) :
                      rem[i] # c /\ CombinedScore(last, rem[i]) = CombinedScore(last, c)
          /\ \E k \in 1..Len(days) : \E p \in 2..Len(days[k].places) :
                LET rem == RemainingAt(days, k, p)
                    last == days[k].places[p - 1].id
                    c == days[k].places[p].id
                IN rem[1] # c /\ CombinedScore(last, rem[1]) < CombinedScore(last, c)

(***************************************************************************)
(* C26: suggest_complete_day, the category allow-list                      *)
(***************************************************************************)
\* the catalog has place d with a category that contains, case ignored, an
\* entry of the allow-list
AllowListHit(d, categories) ==
    /\ catalog[d].status = "ok"
    /\ \E k \in 1..Len(categories) :
          Contains(Lower(catalog[d].category), Lower(categories[k]))

\* the ranked candidates of step i of the chain seq
RankedAt(seq, i) ==
    DayCandidates(graph, catalog, seq[i], {seq[j] : j \in 1..i})

\* the positions of the ranked list whose place hits the allow-list
HitsOf(ranked, categories) ==
    {p \in 1..Len(ranked) : AllowListHit(ranked[p].destination_id, categories)}

\* C26: with a non-empty allow-list, every step appends the highest-ranked
\* candidate whose category hits the allow-list, or the highest-ranked
\* candidate of the whole list when none hits, and the chain stops short of
\* max_places only when the last place has no ranked candidate.
C26_AllowListPrefersThenFallsBack ==
    (IsDayCall /\ ret.categories # <<>> /\ ret.sequence # <<>>) =>
        LET seq == ret.sequence
        IN /\ \A i \in 1..(Len(seq) - 1) :
                 LET ranked == RankedAt(seq, i)
                     hits == HitsOf(ranked, ret.categories)
                 IN /\ ranked # <<>>
                    /\ IF hits # {}
                       THEN \E p \in hits :
                               /\ seq[i + 1] = ranked[p].destination_id
                               /\ \A q \in hits : p <= q
                       ELSE seq[i + 1] = ranked[1].destination_id
           /\ Len(seq) < ret.max_places => RankedAt(seq, Len(seq)) = <<>>

\* a chain whose first step passed over the top candidate for a lower-ranked
\* one that hits the allow-list through a difference of case, and whose
\* second step took the top candidate because none hit
C26_Witness ==
    /\ IsDayCall /\ ret.categories # <<>> /\ Len(ret.sequence) >= 3
    /\ LET seq == ret.sequence
           first == RankedAt(seq, 1)
           second == RankedAt(seq, 2)
       IN /\ Len(first) >= 2
          /\ seq[2] # first[1].destination_id
          /\ \A k \in 1..Len(ret.categories) :
                ~Contains(catalog[seq[2]].category, ret.categories[k])
          /\ HitsOf(second, ret.categories) = {}
          /\ seq[3] = second[1].destination_id

(***************************************************************************)
(* C27: the lazy load of the serving endpoints                             *)
(***************************************************************************)
\* a step of the request being served
RequestStep == reader' # reader /\ reader'.pc # "idle"

C28_LoadNeverOverwritesTrainedGraph ==
    [][(reader.pc = "load_rows" /\ reader'.pc = "load_stats" /\ ~NotGraph(graph)) =>
          EdgeSet(graph') = EdgeSet(graph)]_vars

(***************************************************************************)
(* C29: a training run whose build yields an empty graph                   *)
(***************************************************************************)
\* C29: a build that returns an empty graph, for a history of fewer than 10
\* records or for one in which no pair reaches min_weight, leaves the
\* model's graph, stats and trained_at as they were and writes nothing to
\* the store.
C29_EmptyBuildKeepsServedGraph ==
    [][(runs' # runs /\ NumberOfNodes(ret'.out) = 0) =>
          /\ graph' = graph
          /\ stats' = stats
          /\ trained_at' = trained_at
          /\ store' = store]_vars

(***************************************************************************)
(* C30: termination of the two greedy procedures                           *)
(***************************************************************************)
RunningCall == ret.op # "none" /\ ret.pc # "done"

\* C30: suggest_complete_day performs at most max_places - 1 traversal steps;
\* in optimize_itinerary the head of every day iteration and every growth
\* iteration take one destination out of `remaining`, a day is closed only
\* when it is full or nothing remains, and the procedure ends with at most
\* min(max_days, number of resolved destinations) days; every call that has
\* begun ends, and ends with the result of the procedure.
C30_GreedyProceduresTerminate ==
    /\ [](ret.op = "complete_day" => ret.iterations <= ret.max_places - 1)
    /\ [][(ret.op = "optimize" /\ ret'.op = "optimize") =>
             /\ (ret.pc = "days" /\ ret'.pc = "grow")
                    => Len(ret'.remaining) = Len(ret.remaining) - 1
             /\ (ret.pc = "grow" /\ ret'.pc = "grow")
                    => /\ Len(ret'.remaining) = Len(ret.remaining) - 1
                       /\ Len(ret'.day_places) = Len(ret.day_places) + 1
             /\ (ret.pc = "grow" /\ ret'.pc = "days")
                    => /\ ret'.remaining = ret.remaining
                       /\ Len(ret.day_places) = PlacesPerDay \/ ret.remaining = <<>>]_vars
    /\ []((ret.op = "optimize" /\ ret.pc = "done") =>
             /\ Len(ret.days) <= Min(ret.max_days, Len(ResolvedIds))
             /\ ret.days = OptimizeItinerary(graph, catalog, ret.destination_ids,
                                             ret.max_days).days
                \/ Len(ResolvedIds) < 2)
    /\ []((ret.op = "complete_day" /\ ret.pc = "done") =>
             ret.sequence = DaySequence(graph, catalog, ret.start, <<>>, ret.max_places))
    /\ (RunningCall ~> (ret.op # "none" /\ ret.pc = "done"))

\* a complete-day call that ended after max_places - 1 steps on a graph with
\* a self-loop at its start and a cycle back to it from the last place
C30_Witness ==
    /\ ret.op = "complete_day" /\ ret.pc = "done"
    /\ ret.iterations = ret.max_places - 1
    /\ Len(ret.sequence) = ret.max_places
    /\ HasEdge(graph, ret.start, ret.start)
    /\ HasEdge(graph, ret.sequence[Len(ret.sequence)], ret.start)

====
